---- MODULE Spec2Model ----
(***************************************************************************)
(* A model of Cognio's memory service: the record store (src/database.py), *)
(* the embedding cache (src/embeddings.py) and the save / search pipeline  *)
(* (src/memory.py).                                                        *)
(*                                                                         *)
(* Numbers.  numpy float32 values are modelled as exact rationals          *)
(* [k |-> "fin", n, d] in lowest terms, plus the two IEEE specials the     *)
(* code can produce, [k |-> "inf"] (1.0 / 0.0) and [k |-> "nan"]           *)
(* (inf - inf, inf / inf).  Rounding is not modelled; the 1e-12 guards of  *)
(* the code are modelled by their effect (a zero norm gives similarity 0,  *)
(* a zero range selects the all-ones branch).                              *)
(*                                                                         *)
(* Nullable values.  A NULL embedding is the empty sequence (every         *)
(* consumer treats None and [] alike), a NULL project is the string None,  *)
(* an absent tag list is <<>>, an absent threshold or date is a record of  *)
(* kind "none".                                                            *)
(***************************************************************************)
EXTENDS Integers, Sequences, FiniteSets, Bags, TLC

VARIABLES
    store,          \* the memories table: a sequence of rows in rowid order
    fts,            \* the memories_fts index: a bag of ids, one copy per row
    fts_ready,      \* Database.fts_ready
    settings,       \* the Settings the service runs under
    cache,          \* EmbeddingService.cache: text_hash -> vector
    cache_dirty,    \* EmbeddingService.cache_dirty
    model_loaded,   \* EmbeddingService.model is not None
    embedding_dim,  \* EmbeddingService.embedding_dim
    next_id,        \* the next fresh uuid4
    now,            \* the clock read by get_timestamp
    sv,             \* per request thread: the save_memory call in progress
    ret,            \* per request thread: what its last save_memory returned
    out,            \* the last search_memory call: its arguments and outcome
    del_ret,        \* what the last delete_memory call returned
    re,             \* the reembed_mismatched call: its locals and its result
    db_ret,         \* the last direct Database call and what it returned
    queue,          \* EmbeddingQueue.queue: the (text, text_hash, future) items
    processing,     \* EmbeddingQueue.processing
    procs,          \* the _process_queue tasks, one per add_task that created it
    tasks,          \* the add_task calls and their futures
    listed,         \* the last list_memories call: its arguments and result
    bulk_ret,       \* the last bulk_delete call: its arguments and result
    autotag,        \* the last generate_tags call: the response and its result
    cache_file,     \* the pickle file at settings.embedding_cache_path
    enc_ret,        \* the last EmbeddingService.encode call and its result
    summary_cache,  \* summarization.summary_cache: key -> summary
    sum_ret,        \* the last summarize call and its result
    ld,             \* per request thread: its position in a model load
    loads           \* number of SentenceTransformer objects constructed

\* The state of the maintenance calls and of the embedding queue.
maintVars == <<del_ret, re, db_ret>>
queueVars == <<queue, processing, procs, tasks>>
\* The state of the other calls: listing, bulk delete, tagging, the cache
\* file, summaries and the loading of the model.
opVars == <<listed, bulk_ret, autotag, cache_file, enc_ret, summary_cache, sum_ret,
            ld, loads>>

vars == <<store, fts, fts_ready, settings, cache, cache_dirty, model_loaded,
          embedding_dim, next_id, now, sv, ret, out, maintVars, queueVars, opVars>>

\* ------------------------------------------------------------------ bounds

\* Number of uuids the service may hand out in one behaviour.
MaxIds == 2
\* Last value of the clock.
MaxTime == 1
\* Number of rows of a store a search is run against.
MaxRows == 2
\* Largest result limit a search is called with.
MaxLimit == 2
\* Number of add_task calls made to the embedding queue.
MaxCallers == 3

\* ------------------------------------------------------- program constants

\* settings.max_text_length (10000 by default, set from the environment);
\* scaled down so that both sides of the limit are enumerable.
max_text_length == 2
\* settings.similarity_threshold, in tenths.
similarity_threshold_tenths == 7
\* EmbeddingService.embedding_dim before the model is loaded (768), scaled.
initial_embedding_dim == 2
\* model.get_sentence_embedding_dimension() (768 for the configured model).
model_embedding_dim == 2

None == "<None>"
Threads == {"t1", "t2"}

\* The Settings fields the model reads, with their defaults; hybrid_alpha is
\* set by the specifications.
DefaultSettings ==
    [hybrid_enabled |-> TRUE, hybrid_alpha |-> [k |-> "fin", n |-> 3, d |-> 5],
     autotag_enabled |-> FALSE, llm_key_set |-> FALSE,
     summarization_enabled |-> TRUE, summarization_method |-> "extractive"]

\* summarize leaves texts of fewer words than this alone (50 in the code),
\* keys its cache by this many leading characters (100 in the code; here a
\* character is a sentence of one word) and asks for this many sentences
\* (3 in the code).
summary_min_words == 2
summary_key_chars == 1
num_sentences == 1

\* settings.summarize_threshold (50 words in the code): save_memory
\* summarizes texts of more words than this.
summarize_threshold == 1

\* No call made yet, no cache file written, no summary cached, no model load
\* begun.
NoList == [status |-> "none"]
NoBulk == [status |-> "none"]
NoTagging == [status |-> "none"]
NoFile == [exists |-> FALSE, entries |-> <<>>]
NoEncode == [status |-> "none"]
NoSummary == [status |-> "none"]
NoLoad == [pc |-> "idle", text |-> <<>>]
NoCall == [op |-> "none", id |-> 0, result |-> FALSE]
InitOps ==
    /\ listed = NoList
    /\ bulk_ret = NoBulk
    /\ autotag = NoTagging
    /\ cache_file = NoFile
    /\ enc_ret = NoEncode
    /\ summary_cache = <<>>
    /\ sum_ret = NoSummary
    /\ ld = [p \in Threads |-> NoLoad]
    /\ loads = 0

\* ------------------------------------------------------------- arithmetic

Abs(x) == IF x < 0 THEN -x ELSE x

RECURSIVE Gcd(_, _)
Gcd(a, b) == IF b = 0 THEN a ELSE Gcd(b, a % b)

\* The rational n/d (d # 0) in lowest terms with a positive denominator.
Rat(n, d) ==
    LET g == Gcd(Abs(n), Abs(d))
        s == IF d < 0 THEN -1 ELSE 1
    IN  [k |-> "fin", n |-> (s * n) \div g, d |-> (s * d) \div g]

Inf == [k |-> "inf", n |-> 0, d |-> 1]
NaN == [k |-> "nan", n |-> 0, d |-> 1]
NoFloat == [k |-> "none", n |-> 0, d |-> 1]
Zero == Rat(0, 1)
One == Rat(1, 1)

IsFin(x) == x.k = "fin"

\* IEEE addition over {finite, +inf, nan}.
FAdd(x, y) ==
    IF x.k = "nan" \/ y.k = "nan" THEN NaN
    ELSE IF x.k = "inf" \/ y.k = "inf" THEN Inf
    ELSE Rat(x.n * y.d + y.n * x.d, x.d * y.d)

\* IEEE subtraction: inf - inf is nan, finite - inf does not arise.
FSub(x, y) ==
    IF x.k = "nan" \/ y.k = "nan" THEN NaN
    ELSE IF y.k = "inf" THEN NaN
    ELSE IF x.k = "inf" THEN Inf
    ELSE Rat(x.n * y.d - y.n * x.d, x.d * y.d)

\* IEEE multiplication by a finite factor x >= 0 (alpha, 1 - alpha).
FMul(x, y) ==
    IF x.k = "nan" \/ y.k = "nan" THEN NaN
    ELSE IF x.k = "inf" \/ y.k = "inf"
         THEN (IF (IsFin(x) /\ x.n = 0) \/ (IsFin(y) /\ y.n = 0) THEN NaN ELSE Inf)
    ELSE Rat(x.n * y.n, x.d * y.d)

\* IEEE division as numpy performs it: x / 0 is inf for x > 0 and nan for
\* x = 0, finite / inf is 0, inf / inf is nan.
FDiv(x, y) ==
    IF x.k = "nan" \/ y.k = "nan" THEN NaN
    ELSE IF y.k = "inf" THEN (IF x.k = "inf" THEN NaN ELSE Zero)
    ELSE IF x.k = "inf" THEN Inf
    ELSE IF y.n = 0 THEN (IF x.n = 0 THEN NaN ELSE Inf)
    ELSE Rat(x.n * y.d, x.d * y.n)

\* x >= y; every comparison with nan is False.
FGe(x, y) ==
    IF x.k = "nan" \/ y.k = "nan" THEN FALSE
    ELSE IF x.k = "inf" THEN TRUE
    ELSE IF y.k = "inf" THEN FALSE
    ELSE x.n * y.d >= y.n * x.d

FGt(x, y) == FGe(x, y) /\ ~FGe(y, x)

\* np.min / np.max of a non-empty array: nan propagates.
RECURSIVE FMinSeq(_)
FMinSeq(s) ==
    IF Len(s) = 1 THEN s[1]
    ELSE LET m == FMinSeq(Tail(s))
         IN  IF s[1].k = "nan" \/ m.k = "nan" THEN NaN
             ELSE IF FGe(m, s[1]) THEN s[1] ELSE m

RECURSIVE FMaxSeq(_)
FMaxSeq(s) ==
    IF Len(s) = 1 THEN s[1]
    ELSE LET m == FMaxSeq(Tail(s))
         IN  IF s[1].k = "nan" \/ m.k = "nan" THEN NaN
             ELSE IF FGe(s[1], m) THEN s[1] ELSE m

\* ---------------------------------------------------------------- vectors

RECURSIVE Dot(_, _)
Dot(a, b) == IF Len(a) = 0 THEN 0 ELSE a[1] * b[1] + Dot(Tail(a), Tail(b))

\* np.linalg.norm; the model's vectors all have an integer norm.
Norm(v) == CHOOSE n \in 0..5 : n * n = Dot(v, v)

\* One entry of m_norm @ q_norm for vectors of equal length: the guard
\* 1e-12 makes a zero vector normalise to the zero vector.
unit_dot(m, q) ==
    IF Norm(m) = 0 \/ Norm(q) = 0 THEN Zero
    ELSE Rat(Dot(m, q), Norm(m) * Norm(q))

\* ------------------------------------------------------------------ texts

Chars == {"a", "b"}
Texts == UNION {[1..n -> Chars] : n \in 0..(max_text_length + 1)}

CharCode(c) == IF c = "a" THEN 1 ELSE 2

\* The SHA-256 digest, modelled as a collision-free code of the text.
RECURSIVE generate_text_hash(_)
generate_text_hash(text) ==
    IF Len(text) = 0 THEN 0
    ELSE CharCode(text[1]) + 3 * generate_text_hash(Tail(text))

\* The sentence-transformer: a fixed function of the text into vectors of
\* the model's dimension.
model_encode(text) ==
    IF Len(text) = 0 THEN <<0, 0>>
    ELSE IF text[1] = "a" THEN (IF Len(text) = 1 THEN <<1, 0>> ELSE <<4, 3>>)
    ELSE (IF Len(text) = 1 THEN <<0, 1>> ELSE <<3, 4>>)

\* ------------------------------------------------------------ the database

\* A row of the memories table; the table has no summary column.
Row(id, text, text_hash, embedding, project, tags, created_at, updated_at) ==
    [id |-> id, text |-> text, text_hash |-> text_hash, embedding |-> embedding,
     project |-> project, tags |-> tags, created_at |-> created_at,
     updated_at |-> updated_at, archived |-> FALSE]

Range(s) == {s[i] : i \in 1..Len(s)}

RECURSIVE FilterSeq(_, _)
FilterSeq(s, keep) ==
    IF Len(s) = 0 THEN <<>>
    ELSE IF s[1] \in keep THEN <<s[1]>> \o FilterSeq(Tail(s), keep)
    ELSE FilterSeq(Tail(s), keep)

RECURSIVE SelectRows(_, _)
SelectRows(st, keep) ==
    IF Len(st) = 0 THEN <<>>
    ELSE IF st[1].id \in keep THEN <<st[1]>> \o SelectRows(Tail(st), keep)
    ELSE SelectRows(Tail(st), keep)

Take(s, n) == SubSeq(s, 1, IF n < Len(s) THEN n ELSE Len(s))

\* ORDER BY created_at DESC; rows of equal created_at stay in rowid order.
RECURSIVE InsertByCreated(_, _)
InsertByCreated(r, s) ==
    IF Len(s) = 0 THEN <<r>>
    ELSE IF s[1].created_at >= r.created_at THEN <<s[1]>> \o InsertByCreated(r, Tail(s))
    ELSE <<r>> \o s

RECURSIVE order_by_created_desc(_)
order_by_created_desc(s) ==
    IF Len(s) = 0 THEN <<>>
    ELSE InsertByCreated(s[Len(s)], order_by_created_desc(SubSeq(s, 1, Len(s) - 1)))

\* WHERE text_hash = ? without the archived = 0 condition
get_memory_by_hash_any(st, h) == {r \in Range(st) : r.text_hash = h}

\* The rows SELECT ... WHERE text_hash = ? AND archived = 0 matches; fetchone
\* returns one of them.
get_memory_by_hash(st, h) == {r \in Range(st) : r.text_hash = h /\ ~r.archived}

\* SELECT * FROM memories WHERE id = ?: archived rows included.
get_memory_by_id(st, id) == {r \in Range(st) : r.id = id}

get_all_memories(st) ==
    order_by_created_desc(SelectRows(st, {r.id : r \in {x \in Range(st) : ~x.archived}}))

\* tags LIKE '%"tag"%' over the JSON list: the row carries the tag.
HasAnyTag(r, tags) == \E i \in 1..Len(tags) : tags[i] \in Range(r.tags)

\* the list query without WHERE archived = 0
ListedIds_with_archived(st, project, tags) ==
    {r.id : r \in {x \in Range(st) :
        /\ (project # None /\ project # "" => x.project = project)
        /\ (Len(tags) > 0 => HasAnyTag(x, tags))}}

ListedIds(st, project, tags) ==
    {r.id : r \in {x \in Range(st) :
        /\ ~x.archived
        /\ (project # None /\ project # "" => x.project = project)
        /\ (Len(tags) > 0 => HasAnyTag(x, tags))}}

\* the list query with LIMIT ? and no OFFSET
list_memories_no_offset(st, project, tags, limit, offset) ==
    Take(order_by_created_desc(SelectRows(st, ListedIds(st, project, tags))), limit)

\* SELECT * FROM memories WHERE archived = 0 [AND project] [AND tags]
\* ORDER BY created_at DESC LIMIT ? OFFSET ?
list_memories(st, project, tags, limit, offset) ==
    LET rows == order_by_created_desc(SelectRows(st, ListedIds(st, project, tags)))
    IN  Take(SubSeq(rows, offset + 1, Len(rows)), limit)

count_memories(st, project, tags) == Cardinality(ListedIds(st, project, tags))

\* total_memories and memories_by_project of get_stats.
get_stats(st) ==
    LET live == {r \in Range(st) : ~r.archived}
        projects == {r.project : r \in {x \in live : x.project # None}}
    IN  [total_memories |-> count_memories(st, None, <<>>),
         memories_by_project |->
            [p \in projects |-> Cardinality({r \in live : r.project = p})]]

\* INSERT INTO memories; trg_memories_ai_fts indexes the new row.  An empty
\* embedding is stored as NULL.
db_save_memory(st, memory) ==
    Append(st, Row(memory.id, memory.text, memory.text_hash, memory.embedding,
                   memory.project, memory.tags, memory.created_at, memory.updated_at))

\* ---------------------------------------------------- the memories_fts index

\* AFTER INSERT ON memories: the new row is indexed unless it is archived.
trg_memories_ai_fts(index, id, archived) ==
    IF archived THEN index ELSE index (+) SetToBag({id})

\* AFTER DELETE ON memories: DELETE FROM memories_fts WHERE id = OLD.id, for
\* every row the statement deletes.
trg_memories_ad_fts(index, ids) == [x \in DOMAIN index \ ids |-> index[x]]

\* an update trigger without its DELETE
trg_memories_au_fts_insert_only(index, id, archived) ==
    IF archived THEN index ELSE index (+) SetToBag({id})

\* AFTER UPDATE ON memories: the index rows of OLD.id are deleted and the row
\* is indexed again unless it is archived now.
trg_memories_au_fts(index, id, archived) ==
    LET kept == [x \in DOMAIN index \ {id} |-> index[x]]
    IN  IF archived THEN kept ELSE kept (+) SetToBag({id})

\* The backfill of _init_schema: every non-archived row with no index row
\* gets one.
fts_backfill(st, index) ==
    index (+) SetToBag({r.id : r \in {x \in Range(st) :
                                        ~x.archived /\ x.id \notin DOMAIN index}})

\* ----------------------------------------------------- the embedding service

\* EmbeddingService.encode: the cache is checked by hash first; a miss loads
\* the model (which sets embedding_dim), encodes, caches and marks dirty.
encode(text, text_hash) ==
    IF text_hash \in DOMAIN cache
    THEN [vec |-> cache[text_hash], cache |-> cache, dirty |-> cache_dirty,
          loaded |-> model_loaded, dim |-> embedding_dim, invoked |-> FALSE]
    ELSE [vec |-> model_encode(text),
          cache |-> [h \in DOMAIN cache \cup {text_hash} |->
                        IF h = text_hash THEN model_encode(text) ELSE cache[h]],
          dirty |-> TRUE,
          loaded |-> TRUE,
          dim |-> model_embedding_dim,
          invoked |-> TRUE]

\* ------------------------------------------------------------- save_memory

Idle == [pc |-> "idle", text |-> <<>>, project |-> None, tags |-> <<>>]
NoReturn == [kind |-> "none", id |-> 0, is_duplicate |-> FALSE, reason |-> "", text |-> <<>>]

\* The requests the request threads submit: the same text under two sets of
\* metadata, a text of exactly the maximum length and one that is too long.
SaveRequests ==
    { [text |-> <<"a">>, project |-> "A", tags |-> <<"x">>],
      [text |-> <<"a">>, project |-> None, tags |-> <<>>],
      [text |-> <<"b", "a">>, project |-> "A", tags |-> <<>>],
      [text |-> <<"a", "b", "a">>, project |-> None, tags |-> <<>>] }

\* len(request.text) >= settings.max_text_length
text_too_long_off_by_one(text) == Len(text) >= max_text_length

\* len(request.text) > settings.max_text_length
text_too_long(text) == Len(text) > max_text_length

\* save_memory up to its duplicate check: the length validation, the hash
\* and get_memory_by_hash.  A duplicate returns here.
save_memory_check(p, req) ==
    /\ sv[p].pc = "idle"
    /\ IF text_too_long(req.text)
       THEN /\ ret' = [ret EXCEPT ![p] = [kind |-> "ValueError", id |-> 0,
                          is_duplicate |-> FALSE, reason |-> "", text |-> req.text]]
            /\ UNCHANGED sv
       ELSE LET existing == get_memory_by_hash(store, generate_text_hash(req.text))
            IN  IF existing # {}
                THEN /\ \E e \in existing :
                            ret' = [ret EXCEPT ![p] = [kind |-> "ok", id |-> e.id,
                                is_duplicate |-> TRUE, reason |-> "duplicate",
                                text |-> req.text]]
                     /\ UNCHANGED sv
                ELSE /\ sv' = [sv EXCEPT ![p] = [pc |-> "insert", text |-> req.text,
                                   project |-> req.project, tags |-> req.tags]]
                     /\ ret' = [ret EXCEPT ![p] = NoReturn]
    /\ UNCHANGED <<store, fts, fts_ready, settings, cache, cache_dirty, model_loaded,
                   embedding_dim, next_id, now, out, maintVars, queueVars,
                   opVars>>

\* A JSON value as json.loads returns it, by what generate_tags and
\* save_memory read of it: its type; whether "category" and "tags" are in
\* it (keys of an object, items of an array, substrings of a string); and,
\* for an object, the two values.
Json(t, has_category, has_tags, category, tags_t, tags) ==
    [t |-> t, has_category |-> has_category, has_tags |-> has_tags,
     category |-> category, tags_t |-> tags_t, tags |-> tags]

\* {"category": None, "tags": []}
Neutral == Json("object", TRUE, TRUE, None, "list", <<>>)

JsonValues ==
    { Json("null", FALSE, FALSE, None, "null", <<>>),
      Json("number", FALSE, FALSE, None, "null", <<>>),
      Json("string", FALSE, FALSE, None, "null", <<>>),
      Json("string", TRUE, TRUE, None, "null", <<>>),
      Json("array", FALSE, FALSE, None, "null", <<>>),
      Json("array", TRUE, TRUE, None, "null", <<>>),
      Json("object", TRUE, FALSE, "c", "null", <<>>),
      Json("object", TRUE, TRUE, "c", "list", <<"y">>),
      Json("object", TRUE, TRUE, None, "list", <<>>),
      Json("object", TRUE, TRUE, "c", "number", <<>>),
      Json("object", TRUE, TRUE, "c", "null", <<>>) }

\* What the remote call does: it raises (a timeout included), answers without
\* choices, with empty content, with content that is not JSON, or with JSON.
Response(kind, json) == [kind |-> kind, json |-> json]
NoResponse == Response("none", Neutral)
TagResponses ==
    {Response(k, Neutral) : k \in {"raises", "no_choices", "empty_content", "not_json"}}
    \cup {Response("json", j) : j \in JsonValues}

\* if "category" in result and "tags" in result: return result.  The test
\* raises TypeError for a number or null, which the outer except turns into
\* the neutral result.
validated(j) ==
    IF j.t \in {"null", "number"} THEN Neutral
    ELSE IF j.has_category /\ j.has_tags THEN j
    ELSE Neutral

\* autotag.generate_tags for a given behaviour of the remote call.
generate_tags(cfg, resp) ==
    IF ~cfg.autotag_enabled THEN Neutral
    ELSE IF ~cfg.llm_key_set THEN Neutral
    ELSE IF resp.kind = "json" THEN validated(resp.json)
    ELSE Neutral

\* save_memory's use of the result: autotag_result["tags"] is read and, when
\* truthy, extends the tag list; autotag_result["category"], when truthy, is
\* appended.  Indexing a string or a list by "tags" and extending a list by a
\* number raise TypeError.
apply_autotag(tags, result) ==
    IF result.t # "object" THEN [raised |-> TRUE, tags |-> tags]
    ELSE IF result.tags_t = "number" THEN [raised |-> TRUE, tags |-> tags]
    ELSE [raised |-> FALSE,
          tags |-> tags \o (IF result.tags_t = "list" THEN result.tags ELSE <<>>)
                       \o (IF result.category # None THEN <<result.category>> ELSE <<>>)]

\* if not tags and settings.autotag_enabled
tagging_applies(tags, cfg) == Len(tags) = 0 /\ cfg.autotag_enabled

\* The rest of save_memory: the embedding, the tags generated when none were
\* given, a fresh id, the timestamp and the insert.  Between the check and
\* this step other request threads run.
save_memory_insert(p) ==
    /\ sv[p].pc = "insert"
    /\ next_id <= MaxIds
    /\ \E resp \in IF tagging_applies(sv[p].tags, settings) THEN TagResponses
                  ELSE {NoResponse} :
        LET h == generate_text_hash(sv[p].text)
            e == encode(sv[p].text, h)
            result == generate_tags(settings, resp)
            tagged == IF tagging_applies(sv[p].tags, settings)
                      THEN apply_autotag(sv[p].tags, result)
                      ELSE [raised |-> FALSE, tags |-> sv[p].tags]
            memory == [id |-> next_id, text |-> sv[p].text, text_hash |-> h,
                       embedding |-> e.vec, project |-> sv[p].project,
                       tags |-> tagged.tags, created_at |-> now, updated_at |-> now]
        IN  /\ cache' = e.cache
            /\ cache_dirty' = e.dirty
            /\ model_loaded' = e.loaded
            /\ embedding_dim' = e.dim
            /\ autotag' = IF tagging_applies(sv[p].tags, settings)
                          THEN [status |-> "called", response |-> resp, result |-> result]
                          ELSE autotag
            /\ IF tagged.raised
               THEN /\ ret' = [ret EXCEPT ![p] = [kind |-> "TypeError", id |-> 0,
                                  is_duplicate |-> FALSE, reason |-> "",
                                  text |-> sv[p].text]]
                    /\ UNCHANGED <<store, fts, next_id>>
               ELSE /\ store' = db_save_memory(store, memory)
                    /\ fts' = IF fts_ready THEN trg_memories_ai_fts(fts, next_id, FALSE) ELSE fts
                    /\ ret' = [ret EXCEPT ![p] = [kind |-> "ok", id |-> next_id,
                                  is_duplicate |-> FALSE, reason |-> "created",
                                  text |-> sv[p].text]]
                    /\ next_id' = next_id + 1
    /\ sv' = [sv EXCEPT ![p] = Idle]
    /\ UNCHANGED <<fts_ready, settings, now, out, maintVars, queueVars, listed,
                   bulk_ret, cache_file, enc_ret, summary_cache, sum_ret, ld, loads>>

\* ------------------------------------------------- archive, delete, the clock

\* UPDATE memories SET archived = 1 without the WHERE clause
set_archived_all(st, id) == [i \in 1..Len(st) |-> [st[i] EXCEPT !.archived = TRUE]]

\* UPDATE memories SET archived = 1 WHERE id = ? AND archived = 0
set_archived(st, id) ==
    [i \in 1..Len(st) |-> IF st[i].id = id THEN [st[i] EXCEPT !.archived = TRUE] ELSE st[i]]

\* UPDATE memories SET archived = 1 WHERE id = ? AND archived = 0;
\* trg_memories_au_fts drops the row from the index.
archive_memory(id) ==
    /\ \E i \in 1..Len(store) : store[i].id = id /\ ~store[i].archived
    /\ store' = set_archived(store, id)
    /\ fts' = IF fts_ready THEN trg_memories_au_fts(fts, id, TRUE) ELSE fts
    /\ UNCHANGED <<fts_ready, settings, cache, cache_dirty, model_loaded,
                   embedding_dim, next_id, now, sv, ret, out, maintVars, queueVars,
                   opVars>>

\* cursor.rowcount >= 0
delete_reports_always(st, id) == Cardinality({r \in Range(st) : r.id = id}) >= 0

\* cursor.rowcount > 0 of DELETE FROM memories WHERE id = ?
delete_reports(st, id) == Cardinality({r \in Range(st) : r.id = id}) > 0

NoDelete == [called |-> FALSE, id |-> 0, deleted |-> FALSE]

\* MemoryService.delete_memory: DELETE FROM memories WHERE id = ? (the
\* trigger trg_memories_ad_fts drops the index row), and whether a row was
\* deleted is returned.
delete_memory(id) ==
    /\ store' = SelectRows(store, {r.id : r \in Range(store)} \ {id})
    /\ fts' = IF fts_ready THEN trg_memories_ad_fts(fts, {id}) ELSE fts
    /\ del_ret' = [called |-> TRUE, id |-> id, deleted |-> delete_reports(store, id)]
    /\ UNCHANGED <<fts_ready, settings, cache, cache_dirty, model_loaded,
                   embedding_dim, next_id, now, sv, ret, out, re, db_ret, queueVars,
                   opVars>>

\* ------------------------------------------------------ reembed_mismatched

NoReembed == [pc |-> "idle", page_size |-> 0, offset |-> 0, scanned |-> 0,
              reembedded |-> 0, updated |-> <<>>]

\* m.embedding is not None
needs_reembed_missing_only(m, dim) == Len(m.embedding) = 0

\* (m.embedding is None) or (len(m.embedding) != embedding_service.embedding_dim)
needs_reembed(m, dim) == Len(m.embedding) = 0 \/ Len(m.embedding) # dim

\* UPDATE memories SET updated_at = ? WHERE id = ?
update_embedding_touch_only(st, id, embedding, updated_at) ==
    [i \in 1..Len(st) |->
        IF st[i].id = id THEN [st[i] EXCEPT !.updated_at = updated_at] ELSE st[i]]

\* UPDATE memories SET embedding = ?, updated_at = ? WHERE id = ?
update_embedding(st, id, embedding, updated_at) ==
    [i \in 1..Len(st) |->
        IF st[i].id = id
        THEN [st[i] EXCEPT !.embedding = embedding, !.updated_at = updated_at]
        ELSE st[i]]

\* for m, emb in zip(needs, embeddings): db.update_embedding(m.id, emb)
RECURSIVE update_all(_, _, _)
update_all(st, needs, updated_at) ==
    IF Len(needs) = 0 THEN st
    ELSE update_all(update_embedding(st, needs[1].id, model_encode(needs[1].text),
                                     updated_at),
                    Tail(needs), updated_at)

\* The call begins: scanned = reembedded = offset = 0.
reembed_start(page_size) ==
    /\ re.pc # "run"
    /\ re' = [NoReembed EXCEPT !.pc = "run", !.page_size = page_size]
    /\ UNCHANGED <<store, fts, fts_ready, settings, cache, cache_dirty, model_loaded,
                   embedding_dim, next_id, now, sv, ret, out, del_ret, db_ret,
                   queueVars, opVars>>

\* One iteration of the while loop: a page is listed; an empty page ends the
\* call; otherwise the rows that need it are encoded in one batch (which loads
\* the model) and updated one by one.  The call is interrupted when
\* encode_batch or an update raises: the updates made so far are committed.
reembed_page ==
    /\ re.pc = "run"
    /\ LET memories == list_memories(store, None, <<>>, re.page_size, re.offset)
           needs == FilterSeq(memories,
                        {m \in Range(memories) : needs_reembed(m, embedding_dim)})
       IN  IF Len(memories) = 0
           THEN /\ re' = [re EXCEPT !.pc = "done"]
                /\ UNCHANGED <<store, model_loaded, embedding_dim>>
           ELSE IF Len(needs) = 0
           THEN /\ re' = [re EXCEPT !.scanned = @ + Len(memories),
                                    !.offset = @ + re.page_size]
                /\ UNCHANGED <<store, model_loaded, embedding_dim>>
           ELSE \E n \in 0..Len(needs) :
                /\ store' = update_all(store, SubSeq(needs, 1, n), now)
                /\ IF n = 0
                   THEN UNCHANGED <<model_loaded, embedding_dim>>
                   ELSE model_loaded' = TRUE /\ embedding_dim' = model_embedding_dim
                /\ re' = [re EXCEPT
                            !.pc = IF n = Len(needs) THEN "run" ELSE "failed",
                            !.scanned = @ + Len(memories),
                            !.reembedded = @ + n,
                            !.offset = IF n = Len(needs) THEN @ + re.page_size ELSE @,
                            !.updated = @ \o [i \in 1..n |-> needs[i].id]]
    /\ UNCHANGED <<fts, fts_ready, settings, cache, cache_dirty, next_id, now, sv, ret,
                   out, del_ret, db_ret, queueVars, opVars>>

Tick ==
    /\ now < MaxTime
    /\ now' = now + 1
    /\ UNCHANGED <<store, fts, fts_ready, settings, cache, cache_dirty, model_loaded,
                   embedding_dim, next_id, sv, ret, out, maintVars, queueVars,
                   opVars>>

\* ------------------------------------------------- direct Database calls

\* Database.archive_memory with its return value: cursor.rowcount > 0 holds
\* when a row of that id was not archived yet.
archive_call(id) ==
    LET hit == \E r \in Range(store) : r.id = id /\ ~r.archived
    IN  /\ store' = IF hit THEN set_archived(store, id) ELSE store
        /\ fts' = IF fts_ready /\ hit THEN trg_memories_au_fts(fts, id, TRUE) ELSE fts
        /\ db_ret' = [op |-> "archive_memory", id |-> id, result |-> hit]
        /\ UNCHANGED <<fts_ready, settings, cache, cache_dirty, model_loaded,
                       embedding_dim, next_id, now, sv, ret, out, del_ret, re,
                       queueVars, opVars>>

\* Database.update_embedding with its return value; trg_memories_au_fts
\* drops the row's index entry and writes it again unless the row is
\* archived.
update_embedding_call(id, embedding) ==
    LET hit == \E r \in Range(store) : r.id = id
        live == \E r \in Range(store) : r.id = id /\ ~r.archived
    IN  /\ store' = update_embedding(store, id, embedding, now)
        /\ fts' = IF fts_ready /\ hit
                  THEN trg_memories_au_fts(fts, id, ~live)
                  ELSE fts
        /\ db_ret' = [op |-> "update_embedding", id |-> id, result |-> hit]
        /\ UNCHANGED <<fts_ready, settings, cache, cache_dirty, model_loaded,
                       embedding_dim, next_id, now, sv, ret, out, del_ret, re,
                       queueVars, opVars>>

\* ------------------------------------------------------ candidate retrieval

NoDate == [k |-> "none", ts |-> 0]
BadDate == [k |-> "bad", ts |-> 0]
IsoDate(ts) == [k |-> "iso", ts |-> ts]

\* The ranks bm25() may report: below, at and above the pole of 1 / (1 + rank).
Ranks == {Rat(-2, 1), Rat(-1, 1), Rat(-1, 2)}

\* The sequences of (id, rank) over distinct ids of a set, in ascending rank
\* order (ORDER BY rank; rows of equal rank come in either order).
RECURSIVE RankedSeqs(_)
RankedSeqs(ids) ==
    {<<>>} \cup
    UNION {{<<[id |-> id, rank |-> rank]>> \o t :
                t \in {u \in RankedSeqs(ids \ {id}) :
                          Len(u) = 0 \/ FGe(u[1].rank, rank)}} :
            id \in ids, rank \in Ranks}

\* fts_search_candidates: the rows of the index that MATCH the query are
\* whatever FTS5 decides (none when the query does not parse), joined with the
\* non-archived rows and the project, ordered by rank.
fts_search_candidates(st, index, ready, project) ==
    IF ~ready THEN {<<>>}
    ELSE RankedSeqs({r.id : r \in {x \in Range(st) :
                        /\ x.id \in BagToSet(index)
                        /\ ~x.archived
                        /\ (project # None /\ project # "" => x.project = project)}})

\* text LIKE %query%
Contains(text, query) ==
    \E i \in 1..(Len(text) - Len(query) + 1) :
        SubSeq(text, i, i + Len(query) - 1) = query

like_search_candidates(st, query, project) ==
    LET ids == {r.id : r \in {x \in Range(st) :
                    /\ ~x.archived
                    /\ Contains(x.text, query)
                    /\ (project # None /\ project # "" => x.project = project)}}
        rows == order_by_created_desc(SelectRows(st, ids))
    IN  [i \in 1..Len(rows) |-> rows[i].id]

\* ----------------------------------------------------------- filter pipeline

\* int(datetime.fromisoformat(...).timestamp()); ValueError on a malformed
\* string, in which case the bound is not applied.
\* a malformed after_date rejects every row
passes_after_bad_rejects(m, after_date) ==
    /\ after_date.k # "bad"
    /\ ~(after_date.k = "iso" /\ m.created_at < after_date.ts)

passes_after(m, after_date) ==
    ~(after_date.k = "iso" /\ m.created_at < after_date.ts)

\* m.created_at >= before_ts excludes
passes_before_exclusive(m, before_date) ==
    ~(before_date.k = "iso" /\ m.created_at >= before_date.ts)

passes_before(m, before_date) ==
    ~(before_date.k = "iso" /\ m.created_at > before_date.ts)

passes_tags(m, tags) == Len(tags) > 0 => HasAnyTag(m, tags)

passes_project(m, project) == (project # None /\ project # "") => m.project = project

\* Step 2 of the hybrid path: the FTS candidates that are loaded memories and
\* pass the tag and date filters, each with its rank.
RECURSIVE select_fts(_, _, _)
select_fts(mems, cands, req) ==
    IF Len(cands) = 0 THEN <<>>
    ELSE LET hit == {m \in Range(mems) : m.id = cands[1].id}
             rest == select_fts(mems, Tail(cands), req)
         IN  IF hit = {} THEN rest
             ELSE LET m == CHOOSE x \in hit : TRUE
                  IN  IF /\ passes_tags(m, req.tags)
                         /\ passes_after(m, req.after_date)
                         /\ passes_before(m, req.before_date)
                      THEN <<[m |-> m, rank |-> cands[1].rank]>> \o rest
                      ELSE rest

\* the LIKE fallback's loop without its tag and date checks
RECURSIVE select_like_unfiltered(_, _, _)
select_like_unfiltered(mems, like_ids, req) ==
    IF Len(like_ids) = 0 THEN <<>>
    ELSE LET hit == {m \in Range(mems) : m.id = like_ids[1]}
             rest == select_like_unfiltered(mems, Tail(like_ids), req)
         IN  IF hit = {} THEN rest
             ELSE <<[m |-> CHOOSE x \in hit : TRUE, rank |-> Zero]>> \o rest

\* The LIKE fallback's loop: the same filters, rank 0.0 for every match.
RECURSIVE select_like(_, _, _)
select_like(mems, like_ids, req) ==
    IF Len(like_ids) = 0 THEN <<>>
    ELSE LET hit == {m \in Range(mems) : m.id = like_ids[1]}
             rest == select_like(mems, Tail(like_ids), req)
         IN  IF hit = {} THEN rest
             ELSE LET m == CHOOSE x \in hit : TRUE
                  IN  IF /\ passes_tags(m, req.tags)
                         /\ passes_after(m, req.after_date)
                         /\ passes_before(m, req.before_date)
                      THEN <<[m |-> m, rank |-> Zero]>> \o rest
                      ELSE rest

has_embedding(m, dim) == Len(m.embedding) > 0 /\ Len(m.embedding) = dim

\* ----------------------------------------------------------------- ranking

\* list.sort(key=score, reverse=True): descending, equal scores keep their
\* order.
RECURSIVE InsertByScore(_, _)
InsertByScore(p, s) ==
    IF Len(s) = 0 THEN <<p>>
    ELSE IF FGe(s[1].score, p.score) THEN <<s[1]>> \o InsertByScore(p, Tail(s))
    ELSE <<p>> \o s

\* sorted ascending and then reversed: equal scores swap places
RECURSIVE InsertByScoreReversed(_, _)
InsertByScoreReversed(p, s) ==
    IF Len(s) = 0 THEN <<p>>
    ELSE IF FGt(s[1].score, p.score) THEN <<s[1]>> \o InsertByScoreReversed(p, Tail(s))
    ELSE <<p>> \o s

RECURSIVE sort_by_score_desc_reversed(_)
sort_by_score_desc_reversed(s) ==
    IF Len(s) = 0 THEN <<>>
    ELSE InsertByScoreReversed(s[Len(s)],
                               sort_by_score_desc_reversed(SubSeq(s, 1, Len(s) - 1)))

RECURSIVE sort_by_score_desc(_)
sort_by_score_desc(s) ==
    IF Len(s) = 0 THEN <<>>
    ELSE InsertByScore(s[Len(s)], sort_by_score_desc(SubSeq(s, 1, Len(s) - 1)))

\* the caller's threshold, and none at all when it is not given
effective_threshold_no_default(threshold) ==
    IF threshold.k = "none" THEN Zero ELSE threshold

\* threshold if given, settings.similarity_threshold otherwise
effective_threshold(threshold) ==
    IF threshold.k = "none" THEN Rat(similarity_threshold_tenths, 10) ELSE threshold

\* Min-max normalisation of an array: all ones for a single element or a
\* zero range, (x - min) / range otherwise.
min_max_normalize(xs) ==
    LET lo == FMinSeq(xs)
        hi == FMaxSeq(xs)
        range == FSub(hi, lo)
    IN  IF Len(xs) = 1 \/ range = Zero
        THEN [i \in 1..Len(xs) |-> One]
        ELSE [i \in 1..Len(xs) |-> FDiv(FSub(xs[i], lo), range)]

\* 1.0 / (1.0 + rank)
bm25_inv(rank) == FDiv(One, FAdd(One, rank))

\* pairs = [(mems[i], scores[i]) for i in idxs]: the indices whose score
\* reaches the threshold, in index order.
RECURSIVE passing_indices(_, _, _)
passing_indices(scores, thr, i) ==
    IF i > Len(scores) THEN <<>>
    ELSE IF FGe(scores[i], thr) THEN <<i>> \o passing_indices(scores, thr, i + 1)
    ELSE passing_indices(scores, thr, i + 1)

top_k(pairs, limit) == Take(sort_by_score_desc(pairs), limit)

NoTrace == [fts_called |-> FALSE, like_called |-> FALSE, scan_run |-> FALSE,
            cands |-> <<>>, selected |-> <<>>, kept |-> <<>>,
            sem_norm |-> <<>>, bm_norm |-> <<>>, combined |-> <<>>]

Outcome(status, path, thr, pairs, results, trace) ==
    [status |-> status, path |-> path, thr |-> thr, pairs |-> pairs,
     results |-> results, trace |-> trace]

\* The semantic scoring shared in shape by the fallback scan and the
\* semantic-only path: keep the memories with an embedding of the configured
\* dimension, score by cosine, threshold, sort, truncate.
semantic_rank(base, qv, dim, thr, limit, path, trace) ==
    LET mems == FilterSeq(base, {m \in Range(base) : has_embedding(m, dim)})
    IN  IF Len(mems) = 0 THEN Outcome("ok", path, thr, <<>>, <<>>, trace)
        ELSE IF Len(qv) # dim THEN Outcome("ValueError", path, thr, <<>>, <<>>, trace)
        ELSE LET scores == [i \in 1..Len(mems) |-> unit_dot(mems[i].embedding, qv)]
                 idxs == passing_indices(scores, thr, 1)
                 pairs == [j \in 1..Len(idxs) |->
                              [id |-> mems[idxs[j]].id, score |-> scores[idxs[j]]]]
             IN  Outcome("ok", path, thr, pairs, top_k(pairs, limit), trace)

filter_all(mems, req) ==
    FilterSeq(mems, {m \in Range(mems) :
        /\ passes_project(m, req.project)
        /\ passes_tags(m, req.tags)
        /\ passes_after(m, req.after_date)
        /\ passes_before(m, req.before_date)})

\* a fallback scan that skips the filters
semantic_fallback_unfiltered(st, qv, dim, req, trace) ==
    semantic_rank(get_all_memories(st), qv, dim,
                  effective_threshold(req.threshold), req.limit, "scan",
                  [trace EXCEPT !.scan_run = TRUE])

\* The hybrid path's fallback scan (memory.py 208-270).
semantic_fallback(st, qv, dim, req, trace) ==
    semantic_rank(filter_all(get_all_memories(st), req), qv, dim,
                  effective_threshold(req.threshold), req.limit, "scan",
                  [trace EXCEPT !.scan_run = TRUE])

\* The semantic-only path (memory.py 333-384).
semantic_only(st, qv, dim, req) ==
    semantic_rank(filter_all(get_all_memories(st), req), qv, dim,
                  effective_threshold(req.threshold), req.limit, "semantic", NoTrace)

\* Steps 3 to 7 of the hybrid path.  sem_norm has one entry per candidate
\* that kept its embedding, bm_norm one per selected candidate; numpy adds
\* them by broadcasting, which fails unless the lengths agree or one is 1.
fuse(selected, qv, dim, alpha, thr, limit, path, trace) ==
    LET kept == FilterSeq(selected, {c \in Range(selected) : has_embedding(c.m, dim)})
        k == Len(kept)
        n == Len(selected)
        tr0 == [trace EXCEPT !.selected = [i \in 1..n |->
                                  [id |-> selected[i].m.id, rank |-> selected[i].rank]],
                             !.kept = [i \in 1..k |-> kept[i].m.id]]
    IN  IF k = 0 THEN Outcome("ok", path, thr, <<>>, <<>>, tr0)
        ELSE IF Len(qv) # dim THEN Outcome("ValueError", path, thr, <<>>, <<>>, tr0)
        ELSE
        LET sem_scores == [i \in 1..k |-> unit_dot(kept[i].m.embedding, qv)]
            sem_norm == min_max_normalize(sem_scores)
            bm_norm == min_max_normalize([i \in 1..n |-> bm25_inv(selected[i].rank)])
            tr1 == [tr0 EXCEPT !.sem_norm = sem_norm, !.bm_norm = bm_norm]
        IN  IF k # n /\ k # 1 THEN Outcome("ValueError", path, thr, <<>>, <<>>, tr1)
            ELSE
            LET combined == [i \in 1..n |->
                    FAdd(FMul(alpha, sem_norm[IF k = 1 THEN 1 ELSE i]),
                         FMul(FSub(One, alpha), bm_norm[i]))]
                tr2 == [tr1 EXCEPT !.combined = combined]
                idxs == passing_indices(combined, thr, 1)
            IN  IF \E j \in 1..Len(idxs) : idxs[j] > k
                THEN Outcome("IndexError", path, thr, <<>>, <<>>, tr2)
                ELSE LET pairs == [j \in 1..Len(idxs) |->
                            [id |-> kept[idxs[j]].m.id, score |-> combined[idxs[j]]]]
                     IN  Outcome("ok", path, thr, pairs, top_k(pairs, limit), tr2)

\* if not selected: the substring search whatever the index returned
like_fallback_whenever_empty(from_fts, cands) == Len(from_fts) = 0

\* if not selected: ... if not candidates: like_search_candidates is called
like_fallback_taken(from_fts, cands) == Len(from_fts) = 0 /\ Len(cands) = 0

\* The hybrid branch of search_memory for one answer of the FTS index.
search_hybrid(st, qv, dim, alpha, req, cands) ==
    LET mems == get_all_memories(st)
        thr == effective_threshold(req.threshold)
        from_fts == select_fts(mems, cands, req)
        like_called == like_fallback_taken(from_fts, cands)
        like_ids == IF like_called
                    THEN like_search_candidates(st, req.query, req.project)
                    ELSE <<>>
        selected == IF Len(from_fts) > 0 THEN from_fts
                    ELSE select_like(mems, like_ids, req)
        trace == [NoTrace EXCEPT !.fts_called = TRUE, !.like_called = like_called,
                                 !.cands = cands]
    IN  IF Len(selected) = 0
        THEN semantic_fallback(st, qv, dim, req, trace)
        ELSE fuse(selected, qv, dim, alpha, thr, req.limit,
                  IF Len(from_fts) > 0 THEN "fts" ELSE "like", trace)

\* search_memory: the query is encoded first (through the cache), then the
\* hybrid path is taken when it is enabled and the index is ready.
search_memory(req) ==
    LET e == encode(req.query, generate_text_hash(req.query))
    IN  /\ cache' = e.cache
        /\ cache_dirty' = e.dirty
        /\ model_loaded' = e.loaded
        /\ embedding_dim' = e.dim
        /\ IF settings.hybrid_enabled /\ fts_ready
           THEN \E cands \in fts_search_candidates(store, fts, fts_ready, req.project) :
                    out' = [req |-> req] @@
                           search_hybrid(store, e.vec, e.dim, settings.hybrid_alpha,
                                         req, cands)
           ELSE out' = [req |-> req] @@ semantic_only(store, e.vec, e.dim, req)
        /\ UNCHANGED <<store, fts, fts_ready, settings, next_id, now, sv, ret,
                       maintVars, queueVars, opVars>>

\* The parameters of MemoryService.search_memory.
search_memory_parameters ==
    {"query", "project", "tags", "limit", "threshold", "after_date", "before_date"}

\* MemoryResult(text=memory.text, ...): a result carries the stored text.
result_text(st, r) == get_memory_by_id(st, r.id).text

\* A call of search_memory with further keyword arguments: a keyword that is
\* not a parameter raises TypeError before the body runs.
search_memory_call(req, keywords, max_chars_per_item) ==
    IF keywords \subseteq search_memory_parameters
    THEN search_memory(req)
    ELSE /\ out' = [status |-> "TypeError", req |-> req, keywords |-> keywords,
                    max_chars_per_item |-> max_chars_per_item, results |-> <<>>]
         /\ UNCHANGED <<store, fts, fts_ready, settings, cache, cache_dirty,
                        model_loaded, embedding_dim, next_id, now, sv, ret,
                        maintVars, queueVars, opVars>>

\* -------------------------------------------------------- bulk delete

\* A date argument that parses, as the number of half seconds since the
\* epoch it names.
IsoHalf(half) == [k |-> "iso", half |-> half]

NoTimestamp == [k |-> "none", v |-> 0]

\* int(dt.timestamp()): the fraction of a second is dropped.
int_timestamp(half) == [k |-> "int", v |-> half \div 2]

\* The WHERE clause Database.bulk_delete builds: `if project:` and
\* `if before_timestamp:` add their condition for a truthy argument only.
bulk_delete_where(r, project, before_timestamp) ==
    /\ (project # None /\ project # "") => r.project = project
    /\ (before_timestamp.k = "int" /\ before_timestamp.v # 0) =>
          r.created_at < before_timestamp.v

\* Database.bulk_delete: DELETE FROM memories WHERE 1=1 ...; returns rowcount.
db_bulk_delete(st, project, before_timestamp) ==
    LET gone == {r.id : r \in {x \in Range(st) :
                                  bulk_delete_where(x, project, before_timestamp)}}
    IN  [store |-> SelectRows(st, {r.id : r \in Range(st)} \ gone),
         gone |-> gone,
         count |-> Cardinality({i \in 1..Len(st) : st[i].id \in gone})]

\* MemoryService.bulk_delete: a date that does not parse raises ValueError.
bulk_delete(project, before_date) ==
    /\ IF before_date.k = "bad"
       THEN /\ bulk_ret' = [status |-> "ValueError", project |-> project,
                            before_date |-> before_date, count |-> 0]
            /\ UNCHANGED <<store, fts>>
       ELSE LET before_timestamp == IF before_date.k = "none" THEN NoTimestamp
                                    ELSE int_timestamp(before_date.half)
                d == db_bulk_delete(store, project, before_timestamp)
            IN  /\ store' = d.store
                /\ fts' = IF fts_ready THEN trg_memories_ad_fts(fts, d.gone) ELSE fts
                /\ bulk_ret' = [status |-> "ok", project |-> project,
                                before_date |-> before_date, count |-> d.count]
    /\ UNCHANGED <<fts_ready, settings, cache, cache_dirty, model_loaded, embedding_dim,
                   next_id, now, sv, ret, out, maintVars, queueVars, listed, autotag,
                   cache_file, enc_ret, summary_cache, sum_ret, ld, loads>>

\* ------------------------------------------------------------ listing

\* The number of rows the relevance listing reads from the table.
relevance_scan_limit == 10000

\* EmbeddingService.cosine_similarity: 0.0 for vectors of different shapes
\* and for a zero vector.
cosine_similarity(a, b) ==
    IF Len(a) # Len(b) THEN Zero
    ELSE IF Norm(a) = 0 \/ Norm(b) = 0 THEN Zero
    ELSE Rat(Dot(a, b), Norm(a) * Norm(b))

\* sort == "relevance" with a query: every listed row is read, the rows that
\* have an embedding are scored against the query and sorted, and the page is
\* sliced from the sorted list.
list_relevance(st, qv, project, tags, page, limit) ==
    LET offset == (page - 1) * limit
        all_memories == list_memories(st, project, tags, relevance_scan_limit, 0)
        with_embedding == FilterSeq(all_memories,
                              {m \in Range(all_memories) : Len(m.embedding) > 0})
        scored_memories == sort_by_score_desc(
            [i \in 1..Len(with_embedding) |->
                [id |-> with_embedding[i].id,
                 score |-> cosine_similarity(qv, with_embedding[i].embedding)]])
        paginated == Take(SubSeq(scored_memories, offset + 1, Len(scored_memories)), limit)
    IN  [results |-> paginated,
         total_count |-> Len(all_memories)]

\* The default listing: the page is read from the table in created_at order
\* and the total is counted by a second query.
list_by_date(st, project, tags, page, limit) ==
    LET offset == (page - 1) * limit
        memories == list_memories(st, project, tags, limit, offset)
    IN  [results |-> [i \in 1..Len(memories) |-> [id |-> memories[i].id, score |-> NoFloat]],
         total_count |-> count_memories(st, project, tags)]

\* MemoryService.list_memories.  The relevance listing encodes the query
\* through the embedding cache.
service_list_memories(req) ==
    /\ IF req.sort = "relevance" /\ Len(req.search_query) > 0
       THEN LET e == encode(req.search_query, generate_text_hash(req.search_query))
            IN  /\ cache' = e.cache
                /\ cache_dirty' = e.dirty
                /\ model_loaded' = e.loaded
                /\ embedding_dim' = e.dim
                /\ listed' = [status |-> "ok", req |-> req] @@
                             list_relevance(store, e.vec, req.project, req.tags,
                                            req.page, req.limit)
       ELSE /\ listed' = [status |-> "ok", req |-> req] @@
                         list_by_date(store, req.project, req.tags, req.page, req.limit)
            /\ UNCHANGED <<cache, cache_dirty, model_loaded, embedding_dim>>
    /\ UNCHANGED <<store, fts, fts_ready, settings, next_id, now, sv, ret, out,
                   maintVars, queueVars, bulk_ret, autotag, cache_file, enc_ret,
                   summary_cache, sum_ret, ld, loads>>

\* ------------------------------------------------------ the embedding queue

\* EmbeddingQueue.batch_size (32 by default), scaled.
batch_size == 2

Callers == 1..MaxCallers

NoTask == [state |-> "none", text |-> <<>>, value |-> <<>>]
NoProc == [pc |-> "none", batch |-> <<>>, encoded |-> FALSE]

\* if text_hash in embedding_service.cache -- taken for no hash
in_cache_never(ch, text_hash) == text_hash \in DOMAIN ch /\ text_hash \notin DOMAIN ch

\* if text_hash in embedding_service.cache
in_cache(ch, text_hash) == text_hash \in DOMAIN ch

\* add_task that never starts the processor
start_processor_never(flag) == flag /\ ~flag

\* if not self.processing: asyncio.create_task(self._process_queue())
start_processor(flag) == ~flag

\* add_task up to `return await future`: a cached hash returns at once;
\* otherwise a future is created, the item is put on the (unbounded) queue and,
\* when the processing flag is down, a _process_queue task is created.  No
\* await in between suspends, so this is one step of the event loop.
add_task(c, text) ==
    /\ tasks[c].state = "none"
    /\ LET h == generate_text_hash(text)
       IN  IF in_cache(cache, h)
           THEN /\ tasks' = [tasks EXCEPT ![c] = [state |-> "cached", text |-> text,
                                                  value |-> cache[h]]]
                /\ UNCHANGED <<queue, procs>>
           ELSE /\ tasks' = [tasks EXCEPT ![c] = [state |-> "pending", text |-> text,
                                                  value |-> <<>>]]
                /\ queue' = Append(queue, [text |-> text, text_hash |-> h, future |-> c])
                /\ procs' = IF ~start_processor(processing) THEN procs
                            ELSE [procs EXCEPT ![c] = [NoProc EXCEPT !.pc = "created"]]
    /\ UNCHANGED <<store, fts, fts_ready, settings, cache, cache_dirty, model_loaded,
                   embedding_dim, next_id, now, sv, ret, out, maintVars, processing,
                   opVars>>

\* The caller awaiting its future is cancelled, which cancels the future; the
\* item stays where it is.
cancel_caller(c) ==
    /\ tasks[c].state = "pending"
    /\ tasks' = [tasks EXCEPT ![c].state = "cancelled"]
    /\ UNCHANGED <<store, fts, fts_ready, settings, cache, cache_dirty, model_loaded,
                   embedding_dim, next_id, now, sv, ret, out, maintVars, queue,
                   processing, procs, opVars>>

\* _process_queue without its first two lines
already_processing_unchecked(flag) == flag /\ ~flag

\* if self.processing: return
already_processing(flag) == flag

\* A _process_queue task begins to run: it returns when the flag is up,
\* raises the flag otherwise and enters the loop.
proc_start(p) ==
    /\ procs[p].pc = "created"
    /\ IF already_processing(processing)
       THEN /\ procs' = [procs EXCEPT ![p].pc = "exited"]
            /\ UNCHANGED processing
       ELSE IF Len(queue) = 0
       THEN /\ procs' = [procs EXCEPT ![p].pc = "exited"]
            /\ processing' = FALSE
       ELSE /\ procs' = [procs EXCEPT ![p].pc = "collect"]
            /\ processing' = TRUE
    /\ UNCHANGED <<store, fts, fts_ready, settings, cache, cache_dirty, model_loaded,
                   embedding_dim, next_id, now, sv, ret, out, maintVars, queue, tasks,
                   opVars>>

\* while len(batch) <= self.batch_size
batch_full_late(batch) == Len(batch) > batch_size

\* The inner loop ends when not (len(batch) < self.batch_size).
batch_full(batch) == Len(batch) >= batch_size

\* One wait_for(self.queue.get(), timeout): an item is taken when there is
\* one, the wait times out when there is none.  A full batch, or a timeout
\* with a non-empty batch, hands the batch to encode_batch in the executor.
proc_collect(p) ==
    /\ procs[p].pc = "collect"
    /\ IF Len(queue) > 0
       THEN /\ queue' = Tail(queue)
            /\ procs' = [procs EXCEPT
                    ![p].batch = Append(@, Head(queue)),
                    ![p].pc = IF batch_full(Append(procs[p].batch, Head(queue)))
                              THEN "encode" ELSE "collect"]
            /\ UNCHANGED processing
       ELSE IF Len(procs[p].batch) = 0
       THEN /\ procs' = [procs EXCEPT ![p].pc = "exited"]
            /\ processing' = FALSE
            /\ UNCHANGED queue
       ELSE /\ procs' = [procs EXCEPT ![p].pc = "encode"]
            /\ UNCHANGED <<queue, processing>>
    /\ UNCHANGED <<store, fts, fts_ready, settings, cache, cache_dirty, model_loaded,
                   embedding_dim, next_id, now, sv, ret, out, maintVars, tasks,
                   opVars>>

\* for future in futures: if not future.done(): -- only the first future
reject_first(ts, batch, e) ==
    [c \in DOMAIN ts |->
        IF batch[1].future = c /\ ts[c].state = "pending"
        THEN [ts[c] EXCEPT !.state = "exception", !.value = e]
        ELSE ts[c]]

\* for future in futures: if not future.done(): future.set_exception(e)
reject_pending(ts, batch, e) ==
    [c \in DOMAIN ts |->
        IF (\E i \in 1..Len(batch) : batch[i].future = c) /\ ts[c].state = "pending"
        THEN [ts[c] EXCEPT !.state = "exception", !.value = e]
        ELSE ts[c]]

\* for future, embedding in zip(futures, embeddings): future.set_result(...).
\* set_result on a future that is already done raises InvalidStateError,
\* which the except branch hands to the futures still pending.
RECURSIVE resolve_from(_, _, _)
resolve_from(ts, batch, i) ==
    IF i > Len(batch) THEN ts
    ELSE IF ts[batch[i].future].state # "pending"
    THEN reject_pending(ts, batch, "InvalidStateError")
    ELSE resolve_from([ts EXCEPT ![batch[i].future].state = "result",
                                 ![batch[i].future].value = model_encode(batch[i].text)],
                      batch, i + 1)

\* for text_hash, embedding in zip(hashes, embeddings): cache[text_hash] = embedding
cache_batch(ch, batch) ==
    [h \in DOMAIN ch \cup {batch[i].text_hash : i \in 1..Len(batch)} |->
        IF \E i \in 1..Len(batch) : batch[i].text_hash = h
        THEN model_encode((CHOOSE b \in Range(batch) : b.text_hash = h).text)
        ELSE ch[h]]

\* encode_batch returns or raises for the batch in the executor; the cache
\* and the futures are updated, and the loop goes round.
proc_encode(p) ==
    /\ procs[p].pc = "encode"
    /\ UNCHANGED queue
    /\ \E ok \in BOOLEAN :
        /\ IF ok
           THEN /\ cache' = cache_batch(cache, procs[p].batch)
                /\ tasks' = resolve_from(tasks, procs[p].batch, 1)
                /\ model_loaded' = TRUE
                /\ embedding_dim' = model_embedding_dim
           ELSE /\ tasks' = reject_pending(tasks, procs[p].batch, "RuntimeError")
                /\ UNCHANGED <<cache, model_loaded, embedding_dim>>
        /\ IF Len(queue) = 0
           THEN /\ processing' = FALSE
                /\ procs' = [procs EXCEPT ![p].pc = "exited", ![p].encoded = ok]
           ELSE /\ processing' = TRUE
                /\ procs' = [procs EXCEPT ![p].pc = "collect", ![p].batch = <<>>,
                                          ![p].encoded = ok]
    /\ UNCHANGED <<store, fts, fts_ready, settings, cache_dirty, next_id, now, sv, ret,
                   out, maintVars, opVars>>

\* ------------------------------------------------- the cache and its file

\* A call of EmbeddingService.encode from outside save_memory and search.
encode_call(text) ==
    LET h == generate_text_hash(text)
        e == encode(text, h)
    IN  /\ enc_ret' = [status |-> "returned", text_hash |-> h, vec |-> e.vec,
                       model_invoked |-> e.invoked]
        /\ cache' = e.cache
        /\ cache_dirty' = e.dirty
        /\ model_loaded' = e.loaded
        /\ embedding_dim' = e.dim
        /\ UNCHANGED <<store, fts, fts_ready, settings, next_id, now, sv, ret, out,
                       maintVars, queueVars, listed, bulk_ret, autotag, cache_file,
                       summary_cache, sum_ret, ld, loads>>

\* EmbeddingService.save_cache: nothing is written unless cache_dirty; the
\* pickle holds the whole cache.
save_cache ==
    /\ IF ~cache_dirty
       THEN UNCHANGED <<cache_file, cache_dirty>>
       ELSE /\ cache_file' = [exists |-> TRUE, entries |-> cache]
            /\ cache_dirty' = FALSE
    /\ UNCHANGED <<store, fts, fts_ready, settings, cache, model_loaded, embedding_dim,
                   next_id, now, sv, ret, out, maintVars, queueVars, listed, bulk_ret,
                   autotag, enc_ret, summary_cache, sum_ret, ld, loads>>

\* EmbeddingService.load_cache: the cache becomes what the file holds, if
\* there is a file.
load_cache ==
    /\ cache' = IF cache_file.exists THEN cache_file.entries ELSE cache
    /\ UNCHANGED <<store, fts, fts_ready, settings, cache_dirty, model_loaded,
                   embedding_dim, next_id, now, sv, ret, out, maintVars, queueVars,
                   listed, bulk_ret, autotag, cache_file, enc_ret, summary_cache,
                   sum_ret, ld, loads>>

\* ----------------------------------------------------------- summarization

\* A text to summarize is a sequence of one-word sentences.
SummaryTexts == UNION {[1..n -> Chars] : n \in 0..3}

CountOf(text, c) == Cardinality({i \in 1..Len(text) : text[i] = c})

\* extractive_summarize with one cluster: the centre is the mean of the
\* sentence embeddings, the sentence chosen is the one nearest to it, the
\* first of them on a tie.  Equal sentences have equal embeddings, so the
\* nearest sentence is the more frequent one.
extractive_summarize(text, n) ==
    IF Len(text) <= n THEN text
    ELSE IF CountOf(text, "a") > CountOf(text, "b") THEN <<"a">>
    ELSE IF CountOf(text, "a") < CountOf(text, "b") THEN <<"b">>
    ELSE <<text[1]>>

\* What the remote completion does for abstractive_summarize: it may raise,
\* answer without usable content, or answer with some summary.
NoCompletion == [kind |-> "none", content |-> <<>>]
Completions ==
    {[kind |-> k, content |-> <<>>] : k \in {"raises", "no_content"}}
    \cup {[kind |-> "content", content |-> c] : c \in {<<"a">>, <<"b">>}}

abstractive_summarize(text, resp) ==
    IF resp.kind = "content" THEN resp.content
    ELSE extractive_summarize(text, num_sentences)

uses_llm(cfg) == cfg.summarization_method = "abstractive" /\ cfg.autotag_enabled

summary_cache_key(cfg, text) == <<cfg.summarization_method, Take(text, summary_key_chars)>>

\* summarization.summarize with the module's summary_cache sc; the result is
\* the summary and the cache afterwards.
summarize(cfg, sc, text, resp) ==
    IF ~cfg.summarization_enabled THEN [summary |-> text, cache |-> sc]
    ELSE IF Len(text) < summary_min_words THEN [summary |-> text, cache |-> sc]
    ELSE LET cache_key == summary_cache_key(cfg, text)
         IN  IF cache_key \in DOMAIN sc
             THEN [summary |-> sc[cache_key], cache |-> sc]
             ELSE LET summary == IF uses_llm(cfg)
                                 THEN abstractive_summarize(text, resp)
                                 ELSE extractive_summarize(text, num_sentences)
                  IN  [summary |-> summary,
                       cache |-> [k \in DOMAIN sc \cup {cache_key} |->
                                     IF k = cache_key THEN summary ELSE sc[k]]]

\* A call of summarize.
summarize_call(text) ==
    \E resp \in IF uses_llm(settings) THEN Completions ELSE {NoCompletion} :
        LET r == summarize(settings, summary_cache, text, resp)
        IN  /\ sum_ret' = [status |-> "returned", text |-> text, summary |-> r.summary]
            /\ summary_cache' = r.cache
            /\ UNCHANGED <<store, fts, fts_ready, settings, cache, cache_dirty,
                           model_loaded, embedding_dim, next_id, now, sv, ret, out,
                           maintVars, queueVars, listed, bulk_ret, autotag, cache_file,
                           enc_ret, ld, loads>>

\* ------------------------------------------------- the stored Memory object

\* summary = None; if len(request.text.split()) > settings.summarize_threshold:
\* summary = summarize(request.text)
NoneSummary == <<None>>
save_summary(cfg, sc, text) ==
    IF Len(text) > summarize_threshold
    THEN summarize(cfg, sc, text, NoCompletion).summary
    ELSE NoneSummary

\* The Memory object MemoryService.save_memory hands to the database.
MemoryObject(id, text, summary, embedding, project, tags, timestamp) ==
    [id |-> id, text |-> text, summary |-> summary,
     text_hash |-> generate_text_hash(text), embedding |-> embedding,
     project |-> project, tags |-> tags, created_at |-> timestamp,
     updated_at |-> timestamp]

\* Database._row_to_memory: the embedding and the tags are parsed and Memory
\* is built from the columns of the row; the table has no summary column and
\* none is passed, so the optional summary is None.
row_to_memory(row) ==
    [id |-> row.id, text |-> row.text, summary |-> NoneSummary,
     text_hash |-> row.text_hash, embedding |-> row.embedding,
     project |-> row.project, tags |-> row.tags, created_at |-> row.created_at,
     updated_at |-> row.updated_at]

\* Database.get_memory_by_id: the Memory objects returned for the id, none
\* or one.
read_memory(st, id) == {row_to_memory(r) : r \in get_memory_by_id(st, id)}

\* Database.save_memory called with a Memory object as save_memory builds
\* it: the columns of the INSERT are written, the insert trigger indexes the
\* row.
save_memory_call(text, embedding, project, tags) ==
    /\ next_id <= MaxIds
    /\ LET memory == MemoryObject(next_id, text,
                                  save_summary(settings, summary_cache, text),
                                  embedding, project, tags, now)
       IN  /\ store' = db_save_memory(store, memory)
           /\ fts' = IF fts_ready THEN trg_memories_ai_fts(fts, next_id, FALSE) ELSE fts
           /\ db_ret' = [op |-> "save_memory", id |-> next_id, result |-> TRUE,
                         memory |-> memory]
    /\ next_id' = next_id + 1
    /\ UNCHANGED <<fts_ready, settings, cache, cache_dirty, model_loaded,
                   embedding_dim, now, sv, ret, out, del_ret, re, queueVars, opVars>>

\* ------------------------------------------------------- loading the model

\* EmbeddingService.encode run by a thread, in the steps between which
\* another thread may run.  The cache is looked up; on a miss the model is
\* tested for None and load_model is called.
encode_begin(p, text) ==
    /\ ld[p].pc = "idle"
    /\ ld' = [ld EXCEPT ![p] =
                 [pc |-> IF generate_text_hash(text) \in DOMAIN cache THEN "returned"
                         ELSE IF model_loaded THEN "encoding"
                         ELSE "load_model",
                  text |-> text]]
    /\ UNCHANGED <<store, fts, fts_ready, settings, cache, cache_dirty, model_loaded,
                   embedding_dim, next_id, now, sv, ret, out, maintVars, queueVars,
                   listed, bulk_ret, autotag, cache_file, enc_ret, summary_cache,
                   sum_ret, loads>>

\* load_model tests self.model again and, finding None, begins to construct
\* the SentenceTransformer; no lock is held.
load_model_begin(p) ==
    /\ ld[p].pc = "load_model"
    /\ IF model_loaded
       THEN /\ ld' = [ld EXCEPT ![p].pc = "encoding"]
            /\ UNCHANGED loads
       ELSE /\ ld' = [ld EXCEPT ![p].pc = "constructing"]
            /\ loads' = loads + 1
    /\ UNCHANGED <<store, fts, fts_ready, settings, cache, cache_dirty, model_loaded,
                   embedding_dim, next_id, now, sv, ret, out, maintVars, queueVars,
                   listed, bulk_ret, autotag, cache_file, enc_ret, summary_cache,
                   sum_ret>>

\* The constructor returns: self.model and self.embedding_dim are assigned.
load_model_finish(p) ==
    /\ ld[p].pc = "constructing"
    /\ ld' = [ld EXCEPT ![p].pc = "encoding"]
    /\ model_loaded' = TRUE
    /\ embedding_dim' = model_embedding_dim
    /\ UNCHANGED <<store, fts, fts_ready, settings, cache, cache_dirty, next_id, now,
                   sv, ret, out, maintVars, queueVars, listed, bulk_ret, autotag,
                   cache_file, enc_ret, summary_cache, sum_ret, loads>>

\* The model encodes; the vector is cached and the cache marked dirty.
encode_finish(p) ==
    /\ ld[p].pc = "encoding"
    /\ ld' = [ld EXCEPT ![p].pc = "returned"]
    /\ cache' = [h \in DOMAIN cache \cup {generate_text_hash(ld[p].text)} |->
                    IF h = generate_text_hash(ld[p].text) THEN model_encode(ld[p].text)
                    ELSE cache[h]]
    /\ cache_dirty' = TRUE
    /\ UNCHANGED <<store, fts, fts_ready, settings, model_loaded, embedding_dim,
                   next_id, now, sv, ret, out, maintVars, queueVars, listed, bulk_ret,
                   autotag, cache_file, enc_ret, summary_cache, sum_ret, loads>>

\* The caller has its vector and may call again.
encode_return(p) ==
    /\ ld[p].pc = "returned"
    /\ ld' = [ld EXCEPT ![p] = NoLoad]
    /\ UNCHANGED <<store, fts, fts_ready, settings, cache, cache_dirty, model_loaded,
                   embedding_dim, next_id, now, sv, ret, out, maintVars, queueVars,
                   listed, bulk_ret, autotag, cache_file, enc_ret, summary_cache,
                   sum_ret, loads>>

\* ------------------------------------------------------- the store's life

Alpha == Rat(3, 5)
EmptyCache == [h \in {} |-> <<>>]
NoOut == [status |-> "none"]

\* After construction and connect() on a fresh database file: no rows, the
\* lexical index built, nothing cached, the model not yet loaded.
Init ==
    /\ store = <<>>
    /\ fts = EmptyBag
    /\ fts_ready = TRUE
    /\ settings = DefaultSettings
    /\ cache = EmptyCache
    /\ cache_dirty = FALSE
    /\ model_loaded = FALSE
    /\ embedding_dim = initial_embedding_dim
    /\ next_id = 1
    /\ now = 0
    /\ sv = [p \in Threads |-> Idle]
    /\ ret = [p \in Threads |-> NoReturn]
    /\ out = NoOut
    /\ del_ret = NoDelete
    /\ db_ret = NoCall
    /\ re = NoReembed
    /\ queue = <<>>
    /\ processing = FALSE
    /\ procs = [c \in Callers |-> NoProc]
    /\ tasks = [c \in Callers |-> NoTask]
    /\ InitOps

Next ==
    \/ \E p \in Threads, req \in SaveRequests : save_memory_check(p, req)
    \/ \E p \in Threads : save_memory_insert(p)
    \/ \E id \in 1..MaxIds : archive_memory(id)
    \/ Tick

Spec == Init /\ [][Next]_vars

\* ------------------------------------------------------ searching a store

\* The rows a database file opened by connect() may hold are described by
\* profiles: a reference row and rows that differ from it in one column.
\* The embedding of a row is what encode returned when it was saved, under
\* whatever model and cache the service then had.
RefRow == [match |-> TRUE, embedding |-> <<1, 0>>, project |-> "A", tags |-> <<"x">>,
           created_at |-> 2, archived |-> FALSE]

\* Rows that differ in what the filters read: the text, the project, the
\* tags, the creation time, the archived flag.
FilterProfiles ==
    { RefRow,
      [RefRow EXCEPT !.match = FALSE],
      [RefRow EXCEPT !.project = None],
      [RefRow EXCEPT !.tags = <<>>],
      [RefRow EXCEPT !.created_at = 1],
      [RefRow EXCEPT !.archived = TRUE] }

\* Rows that differ in what the ranking reads: a NULL embedding, an
\* embedding of another model's dimension, another direction, and a text the
\* substring search misses.
RankProfiles ==
    { RefRow,
      [RefRow EXCEPT !.match = FALSE],
      [RefRow EXCEPT !.embedding = <<>>],
      [RefRow EXCEPT !.embedding = <<1>>],
      [RefRow EXCEPT !.embedding = <<3, 4>>] }

\* Distinct texts per row: those that contain the query "a" and those that
\* do not.
MatchingText(i) == IF i = 1 THEN <<"a">> ELSE IF i = 2 THEN <<"a", "b">> ELSE <<"b", "a">>
OtherText(i) == IF i = 1 THEN <<"b">> ELSE IF i = 2 THEN <<"b", "b">> ELSE <<>>

StoredRow(i, prof) ==
    LET text == IF prof.match THEN MatchingText(i) ELSE OtherText(i)
    IN  [id |-> i, text |-> text, text_hash |-> generate_text_hash(text),
         embedding |-> prof.embedding, project |-> prof.project, tags |-> prof.tags,
         created_at |-> prof.created_at, updated_at |-> prof.created_at,
         archived |-> prof.archived]

StoresOf(profiles) ==
    {[i \in 1..Len(ps) |-> StoredRow(i, ps[i])] :
        ps \in UNION {[1..m -> profiles] : m \in 0..MaxRows}}

\* hybrid disabled; hybrid enabled without an index; hybrid enabled with the
\* index.
ConfigsOf(alphas) ==
    { [hybrid_enabled |-> FALSE, fts_ready |-> TRUE, hybrid_alpha |-> Alpha],
      [hybrid_enabled |-> TRUE, fts_ready |-> FALSE, hybrid_alpha |-> Alpha] }
    \cup {[hybrid_enabled |-> TRUE, fts_ready |-> TRUE, hybrid_alpha |-> a] : a \in alphas}

\* No bound, each bound alone, and each bound malformed beside the other.
DateFilters ==
    { [after_date |-> NoDate, before_date |-> NoDate],
      [after_date |-> BadDate, before_date |-> IsoDate(1)],
      [after_date |-> IsoDate(2), before_date |-> BadDate],
      [after_date |-> IsoDate(2), before_date |-> NoDate],
      [after_date |-> NoDate, before_date |-> IsoDate(1)] }

Query == <<"a">>

FilterRequest(p, t, d) ==
    [query |-> Query, project |-> p, tags |-> t, limit |-> MaxLimit,
     threshold |-> Rat(1, 2), after_date |-> d.after_date,
     before_date |-> d.before_date]

\* Every date filter alone, every project and tag filter alone, and the three
\* kinds of filter together.
FilterRequests ==
    {FilterRequest(None, <<>>, d) : d \in DateFilters}
    \cup {FilterRequest(p, t, [after_date |-> NoDate, before_date |-> NoDate]) :
              p \in {None, "A"}, t \in {<<>>, <<"x">>}}
    \cup {FilterRequest("A", <<"x">>, d) :
              d \in {x \in DateFilters : x.after_date # NoDate}}

\* Every limit under a caller's threshold, and the largest limit under the
\* default threshold.
RankRequests ==
    {[query |-> Query, project |-> None, tags |-> <<>>, limit |-> l,
      threshold |-> Rat(1, 2), after_date |-> NoDate, before_date |-> NoDate] :
        l \in {0, 1, MaxLimit}}
    \cup {[query |-> Query, project |-> None, tags |-> <<>>, limit |-> MaxLimit,
            threshold |-> NoFloat, after_date |-> NoDate, before_date |-> NoDate]}

InitSearch(stores, configs) ==
    /\ store \in stores
    /\ \E c \in configs :
        /\ settings = [DefaultSettings EXCEPT !.hybrid_enabled = c.hybrid_enabled,
                                           !.hybrid_alpha = c.hybrid_alpha]
        /\ fts_ready = c.fts_ready
    /\ fts = IF fts_ready THEN fts_backfill(store, EmptyBag) ELSE EmptyBag
    /\ cache = EmptyCache
    /\ cache_dirty = FALSE
    /\ model_loaded = FALSE
    /\ embedding_dim = initial_embedding_dim
    /\ next_id = Len(store) + 1
    /\ now = MaxTime
    /\ sv = [p \in Threads |-> Idle]
    /\ ret = [p \in Threads |-> NoReturn]
    /\ out = NoOut
    /\ del_ret = NoDelete
    /\ db_ret = NoCall
    /\ re = NoReembed
    /\ queue = <<>>
    /\ processing = FALSE
    /\ procs = [c \in Callers |-> NoProc]
    /\ tasks = [c \in Callers |-> NoTask]
    /\ InitOps

\* One call per behaviour: the store, the configuration and the arguments
\* range over bounded sets and search_memory is applied to them.
InitFilter == InitSearch(StoresOf(FilterProfiles), ConfigsOf({Alpha}))
NextFilter == out.status = "none" /\ \E req \in FilterRequests : search_memory(req)
SpecFilter == InitFilter /\ [][NextFilter]_vars

InitRank == InitSearch(StoresOf(RankProfiles), ConfigsOf({Zero, Alpha, One}))
NextRank == out.status = "none" /\ \E req \in RankRequests : search_memory(req)
SpecRank == InitRank /\ [][NextRank]_vars

\* Hybrid search over stores in which the lexical stages may find nothing:
\* rows whose text the query misses, in either project, with usable and
\* unusable embeddings, live and archived.
FallbackProfiles ==
    { RefRow,
      [RefRow EXCEPT !.match = FALSE],
      [RefRow EXCEPT !.match = FALSE, !.project = None, !.embedding = <<3, 4>>],
      [RefRow EXCEPT !.match = FALSE, !.embedding = <<1>>],
      [RefRow EXCEPT !.match = FALSE, !.archived = TRUE] }
FallbackRequests ==
    {[query |-> Query, project |-> p, tags |-> <<>>, limit |-> l, threshold |-> t,
      after_date |-> NoDate, before_date |-> NoDate] :
        p \in {None, "A"}, l \in {1, MaxLimit}, t \in {Rat(1, 2), NoFloat}}
InitFallback ==
    InitSearch(StoresOf(FallbackProfiles),
               {[hybrid_enabled |-> TRUE, fts_ready |-> TRUE, hybrid_alpha |-> Alpha]})
NextFallback == out.status = "none" /\ \E req \in FallbackRequests : search_memory(req)
SpecFallback == InitFallback /\ [][NextFallback]_vars

\* Rows that differ in what the read paths select on: the project and tags,
\* the embedding, the text.  All are live when the file is opened.
ArchiveProfiles ==
    { RefRow,
      [RefRow EXCEPT !.project = None, !.tags = <<>>],
      [RefRow EXCEPT !.embedding = <<3, 4>>],
      [RefRow EXCEPT !.match = FALSE] }

\* A store that is archived from, deleted from and saved to by one request
\* thread; the read operations are functions of the state it is in.
InitArchive == InitSearch(StoresOf(ArchiveProfiles), ConfigsOf({Alpha}))
NextArchive ==
    \/ \E id \in {r.id : r \in Range(store)} : archive_memory(id)
    \/ \E id \in {r.id : r \in Range(store)} : delete_memory(id)
    \/ \E req \in SaveRequests : save_memory_check("t1", req)
    \/ save_memory_insert("t1")
SpecArchive == InitArchive /\ [][NextArchive]_vars

\* Rows that differ in what re-embedding reads: an embedding of the
\* service's dimension, a NULL embedding, an embedding of another dimension,
\* an archived row, an older row.
MaintProfiles ==
    { RefRow,
      [RefRow EXCEPT !.embedding = <<>>],
      [RefRow EXCEPT !.embedding = <<1>>],
      [RefRow EXCEPT !.embedding = <<>>, !.archived = TRUE],
      [RefRow EXCEPT !.embedding = <<>>, !.created_at = 1] }

\* A store under maintenance: records are deleted by id (ids that were never
\* stored included) between runs of reembed_mismatched, and a run proceeds page
\* by page.
InitMaint ==
    InitSearch(StoresOf(MaintProfiles),
               {[hybrid_enabled |-> TRUE, fts_ready |-> TRUE, hybrid_alpha |-> Alpha]})
NextMaint ==
    \/ \E id \in 1..(MaxRows + 1) : re.pc # "run" /\ delete_memory(id)
    \/ \E page_size \in 1..MaxRows : reembed_start(page_size)
    \/ reembed_page
SpecMaint == InitMaint /\ [][NextMaint]_vars

\* The texts handed to the embedding queue.
QueueTexts == {<<"a">>, <<"b">>}

\* The embedding cache as load_cache finds it: empty, or holding one text.
QueueCaches ==
    { EmptyCache,
      [h \in {generate_text_hash(<<"a">>)} |-> model_encode(<<"a">>)] }

\* The embedding queue on one event loop: callers, numbered in the order of
\* their calls, add tasks and may be cancelled while they wait; processor
\* tasks run between the awaits.
InitQueue ==
    /\ store = <<>>
    /\ fts = EmptyBag
    /\ fts_ready = TRUE
    /\ settings = DefaultSettings
    /\ cache \in QueueCaches
    /\ cache_dirty = FALSE
    /\ model_loaded = FALSE
    /\ embedding_dim = initial_embedding_dim
    /\ next_id = 1
    /\ now = 0
    /\ sv = [p \in Threads |-> Idle]
    /\ ret = [p \in Threads |-> NoReturn]
    /\ out = NoOut
    /\ del_ret = NoDelete
    /\ db_ret = NoCall
    /\ re = NoReembed
    /\ queue = <<>>
    /\ processing = FALSE
    /\ procs = [c \in Callers |-> NoProc]
    /\ tasks = [c \in Callers |-> NoTask]
    /\ InitOps
NextQueue ==
    \/ \E c \in Callers, text \in QueueTexts :
          (\A d \in 1..(c - 1) : tasks[d].state # "none") /\ add_task(c, text)
    \/ \E c \in Callers : cancel_caller(c)
    \/ \E p \in Callers : proc_start(p)
    \/ \E p \in Callers : proc_collect(p)
    \/ \E p \in Callers : proc_encode(p)
SpecQueue == InitQueue /\ [][NextQueue]_vars

\* The event loop runs every task that is ready, and each encode_batch call
\* returns or raises: the processor's steps are weakly fair.  Callers are
\* free to call, or to be cancelled, or not.  One caller fewer than in
\* SpecQueue keeps the search for unfair cycles short.
LiveCallers == 1..(MaxCallers - 1)
NextQueueLive ==
    \/ \E c \in LiveCallers, text \in QueueTexts :
          (\A d \in 1..(c - 1) : tasks[d].state # "none") /\ add_task(c, text)
    \/ \E c \in LiveCallers : cancel_caller(c)
    \/ \E p \in LiveCallers : proc_start(p)
    \/ \E p \in LiveCallers : proc_collect(p)
    \/ \E p \in LiveCallers : proc_encode(p)
SpecQueueLive ==
    /\ InitQueue
    /\ [][NextQueueLive]_vars
    /\ \A p \in LiveCallers :
          /\ WF_vars(proc_start(p))
          /\ WF_vars(proc_collect(p))
          /\ WF_vars(proc_encode(p))

\* Rows that differ in what the listing reads: the embedding (present, NULL,
\* of another direction, of another dimension), the archived flag, the
\* project, the creation time.
ListProfiles ==
    { RefRow,
      [RefRow EXCEPT !.embedding = <<>>],
      [RefRow EXCEPT !.embedding = <<3, 4>>, !.created_at = 1],
      [RefRow EXCEPT !.embedding = <<1>>],
      [RefRow EXCEPT !.archived = TRUE],
      [RefRow EXCEPT !.project = None] }

ListRequests ==
    {[project |-> p, tags |-> <<>>, page |-> pg, limit |-> l, sort |-> srt,
      search_query |-> q] :
        p \in {None, "A"}, pg \in 1..(MaxRows + 1), l \in 1..MaxLimit,
        srt \in {"date", "relevance"}, q \in {Query}}
    \cup {[project |-> None, tags |-> <<"x">>, page |-> 1, limit |-> MaxLimit,
           sort |-> "relevance", search_query |-> <<>>]}

\* One listing call per behaviour over a store that was opened.
InitList ==
    InitSearch(StoresOf(ListProfiles),
               {[hybrid_enabled |-> TRUE, fts_ready |-> TRUE, hybrid_alpha |-> Alpha]})
NextList == listed.status = "none" /\ \E req \in ListRequests : service_list_memories(req)
SpecList == InitList /\ [][NextList]_vars

\* Rows that differ in what bulk_delete selects on: the project, the creation
\* time; and an archived row.
BulkProfiles ==
    { RefRow,
      [RefRow EXCEPT !.project = None],
      [RefRow EXCEPT !.created_at = 1],
      [RefRow EXCEPT !.project = None, !.created_at = 1],
      [RefRow EXCEPT !.archived = TRUE] }

\* No date, a date that does not parse, and the dates at every half second
\* from the epoch to past the newest row.
BulkDates == {NoDate, BadDate} \cup {IsoHalf(h) : h \in 0..(2 * MaxTime + 3)}

\* One bulk_delete call per behaviour over a store that was opened.
InitBulk ==
    InitSearch(StoresOf(BulkProfiles),
               {[hybrid_enabled |-> TRUE, fts_ready |-> TRUE, hybrid_alpha |-> Alpha]})
NextBulk ==
    bulk_ret.status = "none"
        /\ \E project \in {None, "", "A"}, before_date \in BulkDates :
              bulk_delete(project, before_date)
SpecBulk == InitBulk /\ [][NextBulk]_vars

\* Saves with tagging enabled, with and without an API key, by one request
\* thread into a fresh store; requests come with and without tags.
TagRequests ==
    SaveRequests \cup {[text |-> <<"b">>, project |-> "A", tags |-> <<"x">>]}
InitTag ==
    /\ store = <<>>
    /\ fts = EmptyBag
    /\ fts_ready = TRUE
    /\ \E key \in BOOLEAN :
          settings = [DefaultSettings EXCEPT !.autotag_enabled = TRUE,
                                             !.llm_key_set = key]
    /\ cache = EmptyCache
    /\ cache_dirty = FALSE
    /\ model_loaded = FALSE
    /\ embedding_dim = initial_embedding_dim
    /\ next_id = 1
    /\ now = 0
    /\ sv = [p \in Threads |-> Idle]
    /\ ret = [p \in Threads |-> NoReturn]
    /\ out = NoOut
    /\ del_ret = NoDelete
    /\ db_ret = NoCall
    /\ re = NoReembed
    /\ queue = <<>>
    /\ processing = FALSE
    /\ procs = [c \in Callers |-> NoProc]
    /\ tasks = [c \in Callers |-> NoTask]
    /\ InitOps
NextTag ==
    \/ \E req \in TagRequests : save_memory_check("t1", req)
    \/ save_memory_insert("t1")
SpecTag == InitTag /\ [][NextTag]_vars

\* One embedding service with its cache file and the queue serving one
\* caller: encode, save_cache and load_cache are called in any order.
InitCache ==
    /\ InitQueue
    /\ cache = EmptyCache
NextCache ==
    \/ \E text \in QueueTexts : encode_call(text)
    \/ save_cache
    \/ load_cache
    \/ \E text \in QueueTexts : add_task(1, text)
    \/ proc_start(1)
    \/ proc_collect(1)
    \/ proc_encode(1)
SpecCache == InitCache /\ [][NextCache]_vars

\* A store whose rows are updated and archived by id, ids that were never
\* stored included.
FrameProfiles ==
    { RefRow,
      [RefRow EXCEPT !.embedding = <<>>, !.created_at = 1],
      [RefRow EXCEPT !.archived = TRUE, !.project = None] }
InitFrame ==
    InitSearch(StoresOf(FrameProfiles),
               {[hybrid_enabled |-> TRUE, fts_ready |-> TRUE, hybrid_alpha |-> Alpha]})
NextFrame ==
    \/ \E id \in 1..(MaxRows + 1), embedding \in {<<>>, <<1, 0>>, <<0, 1>>} :
          update_embedding_call(id, embedding)
    \/ \E id \in 1..(MaxRows + 1) : archive_call(id)
SpecFrame == InitFrame /\ [][NextFrame]_vars

\* One caller at a time: a save runs from its duplicate check to its insert,
\* and a run of reembed_mismatched from its first page to its last, with no
\* other operation in between.  Saves and archives repeat; one delete, one
\* bulk delete and one re-embedding run fall anywhere among them.
Quiet == sv["t1"].pc = "idle" /\ re.pc # "run"
StoreRequests ==
    { [text |-> <<"a">>, project |-> "A", tags |-> <<"x">>],
      [text |-> <<"b", "a">>, project |-> None, tags |-> <<>>] }
NextStore ==
    \/ \E req \in StoreRequests : Quiet /\ save_memory_check("t1", req)
    \/ save_memory_insert("t1")
    \/ \E id \in 1..MaxIds : Quiet /\ archive_memory(id)
    \/ \E id \in 1..MaxIds : Quiet /\ ~del_ret.called /\ delete_memory(id)
    \/ \E call \in {<<None, NoDate>>, <<"A", IsoHalf(2)>>} :
          Quiet /\ bulk_ret.status = "none" /\ bulk_delete(call[1], call[2])
    \/ Quiet /\ re.pc = "idle" /\ reembed_start(MaxRows)
    \/ reembed_page
    \/ Quiet /\ Tick
SpecStore == Init /\ [][NextStore]_vars

\* The file is opened (which backfills the index) and rows are saved,
\* archived, given new embeddings, deleted and bulk-deleted in any order.
IndexProfiles == {RefRow, [RefRow EXCEPT !.archived = TRUE]}
InitIndex ==
    InitSearch(StoresOf(IndexProfiles),
               {[hybrid_enabled |-> TRUE, fts_ready |-> TRUE, hybrid_alpha |-> Alpha]})
NextIndex ==
    \/ \E req \in StoreRequests : Quiet /\ save_memory_check("t1", req)
    \/ save_memory_insert("t1")
    \/ \E id \in 1..(MaxRows + 1) : Quiet /\ archive_memory(id)
    \/ \E id \in 1..(MaxRows + 1) : Quiet /\ update_embedding_call(id, <<0, 1>>)
    \/ \E id \in 1..(MaxRows + 1) : Quiet /\ ~del_ret.called /\ delete_memory(id)
    \/ \E call \in {<<None, NoDate>>, <<"A", IsoHalf(2)>>} :
          Quiet /\ bulk_ret.status = "none" /\ bulk_delete(call[1], call[2])
SpecIndex == InitIndex /\ [][NextIndex]_vars

\* Memory objects of short and of summarized texts are written to a fresh
\* database, at different times.
NextRoundTrip ==
    \/ \E text \in {<<"a">>, <<"b", "a">>, <<"a", "b">>},
          embedding \in {<<1, 0>>, <<0, 1>>},
          project \in {None, "A"}, tags \in {<<>>, <<"x">>} :
          save_memory_call(text, embedding, project, tags)
    \/ Tick
SpecRoundTrip == Init /\ [][NextRoundTrip]_vars

\* The embedding cache as load_cache may find it: empty, written under the
\* configured model, or written under a model of another dimension.
DimCaches ==
    { EmptyCache,
      [h \in {generate_text_hash(<<"a">>)} |-> model_encode(<<"a">>)],
      [h \in {generate_text_hash(<<"a">>)} |-> <<1>>],
      [h \in {generate_text_hash(<<"b", "a">>)} |-> <<1>>] }
DimRequests ==
    {[query |-> Query, project |-> None, tags |-> <<>>, limit |-> MaxLimit,
      threshold |-> t, after_date |-> NoDate, before_date |-> NoDate] :
        t \in {Rat(1, 2), NoFloat}}

\* A service constructed over such a cache file saves and searches; the
\* model is loaded by the first cache miss.
InitDim ==
    /\ store = <<>>
    /\ fts = EmptyBag
    /\ fts_ready = TRUE
    /\ settings \in {DefaultSettings, [DefaultSettings EXCEPT !.hybrid_enabled = FALSE]}
    /\ cache \in DimCaches
    /\ cache_dirty = FALSE
    /\ model_loaded = FALSE
    /\ embedding_dim = initial_embedding_dim
    /\ next_id = 1
    /\ now = 0
    /\ sv = [p \in Threads |-> Idle]
    /\ ret = [p \in Threads |-> NoReturn]
    /\ out = NoOut
    /\ del_ret = NoDelete
    /\ db_ret = NoCall
    /\ re = NoReembed
    /\ queue = <<>>
    /\ processing = FALSE
    /\ procs = [c \in Callers |-> NoProc]
    /\ tasks = [c \in Callers |-> NoTask]
    /\ InitOps
NextDim ==
    \/ \E req \in StoreRequests : Quiet /\ save_memory_check("t1", req)
    \/ save_memory_insert("t1")
    \/ \E req \in DimRequests : Quiet /\ out.status = "none" /\ search_memory(req)
SpecDim == InitDim /\ [][NextDim]_vars

\* search_memory called as the service's callers and tests call it: with
\* its own parameters only, or with minimal and max_chars_per_item too.
MinimalProfiles ==
    {RefRow, [RefRow EXCEPT !.match = FALSE], [RefRow EXCEPT !.embedding = <<3, 4>>]}
MinimalRequest ==
    [query |-> Query, project |-> None, tags |-> <<>>, limit |-> MaxLimit,
     threshold |-> Zero, after_date |-> NoDate, before_date |-> NoDate]
InitMinimal == InitSearch(StoresOf(MinimalProfiles), ConfigsOf({Alpha}))
NextMinimal ==
    /\ out.status = "none"
    /\ \E keywords \in {{}, {"minimal", "max_chars_per_item"}}, n \in 0..1 :
          search_memory_call(MinimalRequest, keywords, n)
SpecMinimal == InitMinimal /\ [][NextMinimal]_vars

\* Request threads calling encode on one embedding service whose model is
\* not loaded yet.
InitLoad ==
    /\ InitQueue
    /\ cache = EmptyCache
NextLoad ==
    \/ \E p \in Threads, text \in QueueTexts : encode_begin(p, text)
    \/ \E p \in Threads : load_model_begin(p)
    \/ \E p \in Threads : load_model_finish(p)
    \/ \E p \in Threads : encode_finish(p)
    \/ \E p \in Threads : encode_return(p)
SpecLoad == InitLoad /\ [][NextLoad]_vars

\* The summarizer under each configuration of its three settings.
SummarySettings ==
    {[DefaultSettings EXCEPT !.summarization_enabled = e, !.summarization_method = m,
                             !.autotag_enabled = t] :
        e \in BOOLEAN, m \in {"extractive", "abstractive"}, t \in BOOLEAN}
InitSummary ==
    /\ store = <<>>
    /\ fts = EmptyBag
    /\ fts_ready = TRUE
    /\ settings \in SummarySettings
    /\ cache = EmptyCache
    /\ cache_dirty = FALSE
    /\ model_loaded = FALSE
    /\ embedding_dim = initial_embedding_dim
    /\ next_id = 1
    /\ now = 0
    /\ sv = [p \in Threads |-> Idle]
    /\ ret = [p \in Threads |-> NoReturn]
    /\ out = NoOut
    /\ del_ret = NoDelete
    /\ db_ret = NoCall
    /\ re = NoReembed
    /\ queue = <<>>
    /\ processing = FALSE
    /\ procs = [c \in Callers |-> NoProc]
    /\ tasks = [c \in Callers |-> NoTask]
    /\ InitOps
NextSummary == \E text \in SummaryTexts : summarize_call(text)
SpecSummary == InitSummary /\ [][NextSummary]_vars

\* ================================================================= claims

RowOf(id) == CHOOSE r \in Range(store) : r.id = id
LiveRows == {r \in Range(store) : ~r.archived}

\* Thread p has, in this step, run save_memory's validation and duplicate
\* check on the text.
CheckedSave(p, text) ==
    /\ sv[p].pc = "idle"
    /\ \/ ret'[p] # ret[p] /\ ret'[p].kind # "none" /\ ret'[p].text = text
       \/ sv'[p].pc = "insert" /\ sv'[p].text = text

\* C1: a save of a text (within the length limit) that a non-archived row
\* already holds returns that row's id with is_duplicate = True and reason
\* "duplicate", and leaves the table as it was.
C1_DuplicateSave ==
    [][\A p \in Threads, req \in SaveRequests :
        ( /\ CheckedSave(p, req.text)
          /\ Len(req.text) <= max_text_length
          /\ \E r \in LiveRows : r.text = req.text )
        => /\ ret'[p].kind = "ok"
           /\ ret'[p].is_duplicate
           /\ ret'[p].reason = "duplicate"
           /\ \E r \in LiveRows : r.text = req.text /\ r.id = ret'[p].id
           /\ store' = store
           /\ sv'[p].pc = "idle"]_vars

C1_Witness ==
    \E p \in Threads :
        /\ ret[p].is_duplicate
        /\ ret[p].reason = "duplicate"
        /\ \E r \in LiveRows : r.id = ret[p].id /\ r.text = ret[p].text

\* C2: of two save_memory calls for the same text that run concurrently, at
\* most one inserts a row: two threads never both hold a "created" answer
\* for the same text while both rows are live.
C2_OneInsertPerText ==
    \A p, q \in Threads :
        ( /\ p # q
          /\ ret[p].reason = "created"
          /\ ret[q].reason = "created"
          /\ ret[p].text = ret[q].text
          /\ \E r \in LiveRows : r.id = ret[p].id
          /\ \E r \in LiveRows : r.id = ret[q].id )
        => ret[p].id = ret[q].id

\* C4: a save of a text longer than max_text_length fails with ValueError and
\* changes neither the table nor the embedding cache; a text of exactly the
\* maximum length is not rejected.
C4_LengthLimit ==
    [][\A p \in Threads, req \in SaveRequests :
        CheckedSave(p, req.text)
        => /\ Len(req.text) > max_text_length
                => /\ ret'[p].kind = "ValueError"
                   /\ sv'[p].pc = "idle"
                   /\ store' = store
                   /\ cache' = cache
                   /\ cache_dirty' = cache_dirty
           /\ Len(req.text) = max_text_length => ret'[p].kind # "ValueError"]_vars

C4_Witness ==
    /\ \E p \in Threads :
        ret[p].kind = "ValueError" /\ Len(ret[p].text) = max_text_length + 1
    /\ \E r \in Range(store) : Len(r.text) = max_text_length

\* The searches C3 looks at: no filter, a threshold every score reaches, a
\* limit no store exceeds.
UnfilteredRequest ==
    [query |-> Query, project |-> None, tags |-> <<>>, limit |-> MaxIds + MaxRows,
     threshold |-> Rat(-1, 1), after_date |-> NoDate, before_date |-> NoDate]

\* What search_memory would return in this state: on the hybrid path one
\* outcome for every answer of the index, on the semantic-only path one.
SearchOutcomesNow ==
    LET e == encode(Query, generate_text_hash(Query))
    IN  IF settings.hybrid_enabled /\ fts_ready
        THEN {search_hybrid(store, e.vec, e.dim, settings.hybrid_alpha, UnfilteredRequest, c) :
                c \in fts_search_candidates(store, fts, fts_ready, None)}
        ELSE {semantic_only(store, e.vec, e.dim, UnfilteredRequest)}

ResultIds(o) == {o.results[i].id : i \in 1..Len(o.results)}
ArchivedIds == {r.id : r \in {x \in Range(store) : x.archived}}

\* C3: a row archived by archive_memory is, in every later state in which it
\* still exists, absent from list_memories, count_memories, get_all_memories,
\* the results of search_memory and the totals of get_stats, and
\* get_memory_by_id still returns it.
C3_ArchivedHidden ==
    ArchivedIds # {} =>
        /\ \A project \in {None, "A"}, tags \in {<<>>, <<"x">>} :
            /\ ArchivedIds \cap {m.id : m \in Range(list_memories(store, project, tags,
                                                                  Len(store), 0))} = {}
            /\ count_memories(store, project, tags) =
                 Cardinality({m \in LiveRows :
                    /\ (project # None => m.project = project)
                    /\ (tags # <<>> => \E i \in 1..Len(m.tags) : m.tags[i] = tags[1])})
        /\ ArchivedIds \cap {m.id : m \in Range(get_all_memories(store))} = {}
        /\ \A o \in SearchOutcomesNow : ArchivedIds \cap ResultIds(o) = {}
        /\ get_stats(store).total_memories = Cardinality(LiveRows)
        /\ \A p \in DOMAIN get_stats(store).memories_by_project :
                get_stats(store).memories_by_project[p] =
                    Cardinality({m \in LiveRows : m.project = p})
        /\ \A r \in Range(store) : r.archived => get_memory_by_id(store, r.id) = {r}

\* A row is archived, another row with the same text was saved after it and
\* is live, and a search returns rows.
C3_Witness ==
    /\ \E r \in Range(store) : r.archived /\ \E m \in LiveRows : m.text = r.text
    /\ \E o \in SearchOutcomesNow : o.results # <<>>

\* ------------------------------------------------------- claims on search

Searched == out.status # "none"
Returned == out.status = "ok"
Fused == Searched /\ out.path \in {"fts", "like"}

SuppliedProject(req) == req.project # None /\ req.project # ""

\* The row passes the tag and date filters of the request.
PassesTagsAndDates(r, req) ==
    /\ req.tags # <<>> => \E i \in 1..Len(req.tags), j \in 1..Len(r.tags) :
                              req.tags[i] = r.tags[j]
    /\ req.after_date.k = "iso" => r.created_at >= req.after_date.ts
    /\ req.before_date.k = "iso" => r.created_at <= req.before_date.ts

\* C5: on every retrieval path each returned result is a non-archived row
\* whose project equals the requested project, that carries one of the
\* requested tags and whose created_at lies within the parsed date bounds.
C5_ResultsPassFilters ==
    Returned =>
        \A i \in 1..Len(out.results) :
            \E r \in Range(store) :
                /\ r.id = out.results[i].id
                /\ ~r.archived
                /\ SuppliedProject(out.req) => r.project = out.req.project
                /\ PassesTagsAndDates(r, out.req)

\* A search under some filter returned a row while the store holds a live
\* row that the filter rejects.
FilterActed(path) ==
    /\ Returned
    /\ out.path = path
    /\ out.results # <<>>
    /\ \/ SuppliedProject(out.req) /\ \E r \in LiveRows : r.project # out.req.project
       \/ \E r \in LiveRows : ~PassesTagsAndDates(r, out.req)

C5_Witness == FilterActed("like") /\ out.req.tags # <<>>

\* Candidates of the two lexical steps that survive the filters.
FtsSurvivors ==
    {r.id : r \in {x \in LiveRows :
        /\ \E i \in 1..Len(out.trace.cands) : out.trace.cands[i].id = x.id
        /\ PassesTagsAndDates(x, out.req)}}

LikeSurvivors ==
    {r.id : r \in {x \in LiveRows :
        /\ Contains(x.text, out.req.query)
        /\ SuppliedProject(out.req) => x.project = out.req.project
        /\ PassesTagsAndDates(x, out.req)}}

\* C6: in a hybrid search the substring search is invoked only when the
\* ranked search returned no candidate, the full scan runs only when no
\* candidate of either lexical step survives the filters, and a step that
\* yields a surviving candidate ends the ladder.
C6_LadderOrder ==
    Searched =>
        /\ out.trace.like_called => out.trace.fts_called /\ out.trace.cands = <<>>
        /\ out.trace.scan_run =>
                /\ out.trace.fts_called
                /\ FtsSurvivors = {}
                /\ out.trace.like_called => LikeSurvivors = {}
        /\ FtsSurvivors # {} =>
                ~out.trace.like_called /\ ~out.trace.scan_run /\ out.path = "fts"
        /\ (out.trace.like_called /\ LikeSurvivors # {}) =>
                ~out.trace.scan_run /\ out.path = "like"

C6_Witness ==
    /\ Returned
    /\ out.trace.like_called
    /\ out.trace.scan_run
    /\ out.results # <<>>

\* The row has an embedding of the configured dimension.
Embedded(id) ==
    \E r \in Range(store) :
        r.id = id /\ r.embedding # <<>> /\ Len(r.embedding) = embedding_dim

PosIn(ids, id) == CHOOSE i \in 1..Len(ids) : ids[i] = id
SelectedIds == [i \in 1..Len(out.trace.selected) |-> out.trace.selected[i].id]

\* alpha * sem_norm + (1 - alpha) * bm_norm of one candidate, from its own
\* entries of the two normalised arrays.
OwnCombined(id) ==
    FAdd(FMul(settings.hybrid_alpha, out.trace.sem_norm[PosIn(out.trace.kept, id)]),
         FMul(FSub(One, settings.hybrid_alpha), out.trace.bm_norm[PosIn(SelectedIds, id)]))

\* C7: when some filtered candidates of a hybrid search have no embedding of
\* the configured dimension, the search drops exactly those, fuses each
\* remaining candidate's semantic score with that candidate's own lexical
\* rank, and returns without raising.
C7_DropsAndFusesOwnRank ==
    ( /\ Fused
      /\ \E i \in 1..Len(SelectedIds) : ~Embedded(SelectedIds[i]) )
    => /\ Returned
       /\ \A i \in 1..Len(SelectedIds) :
            Embedded(SelectedIds[i]) <=>
                \E j \in 1..Len(out.trace.kept) : out.trace.kept[j] = SelectedIds[i]
       /\ \A i \in 1..Len(out.results) :
            out.results[i].score = OwnCombined(out.results[i].id)

\* The threshold the call is entitled to.
EffectiveThreshold ==
    IF out.req.threshold.k = "none" THEN Rat(similarity_threshold_tenths, 10)
    ELSE out.req.threshold

\* Cosine similarity of a row's embedding and the query's.
Cosine(id) ==
    LET a == RowOf(id).embedding
        q == model_encode(out.req.query)
    IN  IF Dot(a, a) = 0 \/ Dot(q, q) = 0 THEN Zero
        ELSE Rat(Dot(a, q), Norm(a) * Norm(q))

\* C8: every returned result has a score that reaches the effective
\* threshold (the caller's, or the configured default); the score is the
\* fused combined score in hybrid mode and the raw cosine similarity in
\* semantic-only mode and in the hybrid fallback scan.
C8_ScoresReachThreshold ==
    Returned =>
        \A i \in 1..Len(out.results) :
            /\ FGe(out.results[i].score, EffectiveThreshold)
            /\ out.path \in {"semantic", "scan"} =>
                    out.results[i].score = Cosine(out.results[i].id)
            /\ out.path \in {"fts", "like"} =>
                    out.results[i].score =
                        out.trace.combined[PosIn(out.trace.kept, out.results[i].id)]

C8_Witness ==
    /\ Returned
    /\ out.req.threshold.k = "none"
    /\ out.path = "fts"
    /\ out.results # <<>>
    /\ Len(out.results) < Len(out.trace.kept)

PairIds == [i \in 1..Len(out.pairs) |-> out.pairs[i].id]

\* C9: for limit >= 0 the result is the first `limit` elements of the
\* threshold-passing candidates sorted by descending score, equal scores in
\* candidate order: never more than limit elements, never a passing
\* candidate left out in favour of a lower-scored or later equal one.
C9_TopKStable ==
    (Returned /\ out.req.limit >= 0) =>
        /\ Len(out.results) =
              IF out.req.limit < Len(out.pairs) THEN out.req.limit ELSE Len(out.pairs)
        /\ \A i \in 1..Len(out.results) :
              \E j \in 1..Len(out.pairs) : out.pairs[j] = out.results[i]
        /\ \A i, j \in 1..Len(out.results) :
              i < j =>
                /\ out.results[i].id # out.results[j].id
                /\ FGe(out.results[i].score, out.results[j].score)
                /\ out.results[i].score = out.results[j].score =>
                      PosIn(PairIds, out.results[i].id) < PosIn(PairIds, out.results[j].id)
        /\ \A j \in 1..Len(out.pairs), i \in 1..Len(out.results) :
              (\A k \in 1..Len(out.results) : out.results[k].id # out.pairs[j].id) =>
                /\ ~FGt(out.pairs[j].score, out.results[i].score)
                /\ out.pairs[j].score = out.results[i].score =>
                      PosIn(PairIds, out.results[i].id) < j

C9_Witness ==
    /\ Returned
    /\ Len(out.pairs) = 2
    /\ out.pairs[1].score = out.pairs[2].score
    /\ out.req.limit = 1
    /\ out.results = <<out.pairs[1]>>

AllEqual(xs) == \A i, j \in 1..Len(xs) : xs[i] = xs[j]
AllOnes(xs) == \A i \in 1..Len(xs) : xs[i] = One

\* C10: the min-max normalisation of the fusion yields 1.0 for every
\* candidate when there is one candidate or all candidates have equal
\* values, for the semantic and for the lexical scores; every candidate of
\* the substring fallback gets normalised lexical score 1.0, and a lone
\* candidate gets combined score 1.0 whatever alpha is.
C10_DegenerateNormalisation ==
    (Fused /\ out.trace.bm_norm # <<>>) =>
        /\ ( \/ Len(out.trace.kept) = 1
             \/ AllEqual([i \in 1..Len(out.trace.kept) |-> Cosine(out.trace.kept[i])]) )
           => AllOnes(out.trace.sem_norm)
        /\ ( \/ Len(out.trace.selected) = 1
             \/ AllEqual([i \in 1..Len(out.trace.selected) |->
                            out.trace.selected[i].rank]) )
           => AllOnes(out.trace.bm_norm)
        /\ out.path = "like" => AllOnes(out.trace.bm_norm)
        /\ (Len(out.trace.selected) = 1 /\ out.trace.combined # <<>>)
           => out.trace.combined = <<One>>

\* Every selected candidate kept its embedding, so the two normalised arrays
\* are index-aligned.
AllKept == Len(out.trace.kept) = Len(out.trace.selected)

\* C11: with alpha = 0 the fused score follows the lexical order: of two
\* candidates the one with the lower rank gets a combined score at least as
\* high, and 1 / (1 + rank) is a finite number for every rank the index
\* returned.
C11_AlphaZeroLexicalOrder ==
    (Fused /\ Returned /\ AllKept /\ settings.hybrid_alpha = Zero) =>
        /\ \A i \in 1..Len(out.trace.selected) :
              IsFin(bm25_inv(out.trace.selected[i].rank))
        /\ \A i, j \in 1..Len(out.trace.selected) :
              FGt(out.trace.selected[j].rank, out.trace.selected[i].rank)
                => FGe(out.trace.combined[i], out.trace.combined[j])

\* C12: with alpha = 1 the fused score follows the semantic order: of two
\* candidates the one with the higher cosine similarity to the query gets a
\* combined score at least as high, whatever their lexical ranks.
C12_AlphaOneSemanticOrder ==
    (Fused /\ Returned /\ AllKept /\ settings.hybrid_alpha = One) =>
        \A i, j \in 1..Len(out.trace.kept) :
            FGe(Cosine(out.trace.kept[i]), Cosine(out.trace.kept[j]))
                => FGe(out.trace.combined[i], out.trace.combined[j])

\* The request with its malformed bounds left out.
WithoutBadDates(req) ==
    [req EXCEPT !.after_date = IF @.k = "bad" THEN NoDate ELSE @,
                !.before_date = IF @.k = "bad" THEN NoDate ELSE @]

\* What the call recorded in out would have returned for another request,
\* given the same answer of the index.
SearchAgain(req) ==
    LET qv == cache[generate_text_hash(req.query)]
    IN  IF settings.hybrid_enabled /\ fts_ready
        THEN search_hybrid(store, qv, embedding_dim, settings.hybrid_alpha, req,
                           out.trace.cands)
        ELSE semantic_only(store, qv, embedding_dim, req)

HasBadDate(req) == req.after_date.k = "bad" \/ req.before_date.k = "bad"

\* C13: a search called with a malformed after_date or before_date does not
\* fail and returns exactly what it returns with that bound omitted.
C13_BadDateIgnored ==
    (Searched /\ HasBadDate(out.req)) =>
        /\ Returned
        /\ out.results = SearchAgain(WithoutBadDates(out.req)).results

\* The malformed bound sits beside a well-formed one that rejects a live row,
\* and rows are returned.
C13_Witness ==
    /\ Returned
    /\ out.req.after_date.k = "bad"
    /\ out.req.before_date.k = "iso"
    /\ out.results # <<>>
    /\ \E r \in LiveRows : r.created_at > out.req.before_date.ts

\* created_at lies within the parsed bounds, both ends included.
InBounds(r, req) ==
    /\ req.after_date.k = "iso" => r.created_at >= req.after_date.ts
    /\ req.before_date.k = "iso" => r.created_at <= req.before_date.ts

PassesTags(r, req) ==
    req.tags # <<>> => \E i \in 1..Len(req.tags), j \in 1..Len(r.tags) :
                           req.tags[i] = r.tags[j]

\* The row is a candidate of the lexical step the call fused.
LexicalCandidate(r) ==
    IF out.path = "fts"
    THEN \E i \in 1..Len(out.trace.cands) : out.trace.cands[i].id = r.id
    ELSE /\ Contains(r.text, out.req.query)
         /\ SuppliedProject(out.req) => r.project = out.req.project

\* C14: the date bounds are inclusive on every path.  Among the rows that
\* pass everything else, the lexical steps select, and the scans return,
\* exactly those whose created_at is >= the after bound and <= the before
\* bound: a row at the bound is kept, a row one unit outside it is dropped.
C14_DateBoundsInclusive ==
    /\ Fused =>
          \A r \in LiveRows :
              (LexicalCandidate(r) /\ PassesTags(r, out.req)) =>
                  ((\E i \in 1..Len(SelectedIds) : SelectedIds[i] = r.id)
                      <=> InBounds(r, out.req))
    /\ (Returned /\ out.path \in {"scan", "semantic"}) =>
          \A r \in LiveRows :
              ( /\ SuppliedProject(out.req) => r.project = out.req.project
                /\ PassesTags(r, out.req)
                /\ Embedded(r.id)
                /\ FGe(Cosine(r.id), EffectiveThreshold)
                /\ Len(out.pairs) <= out.req.limit )
              => (r.id \in ResultIds(out) <=> InBounds(r, out.req))

\* A row created exactly at the after bound is returned while a row created
\* one unit earlier, which passes every other filter, is not.
C14_Witness ==
    /\ Returned
    /\ out.req.after_date.k = "iso"
    /\ \E r \in LiveRows :
          r.created_at = out.req.after_date.ts /\ r.id \in ResultIds(out)
    /\ \E r \in LiveRows :
          /\ r.created_at = out.req.after_date.ts - 1
          /\ PassesTags(r, out.req)
          /\ SuppliedProject(out.req) => r.project = out.req.project
          /\ r.id \notin ResultIds(out)

\* C15: a search writes no shared state: the step that runs search_memory
\* leaves the table, the lexical index, the entries of the embedding cache
\* and its dirty flag as they were.
C15_SearchWritesNothing ==
    [][out' # out =>
        /\ store' = store
        /\ fts' = fts
        /\ cache' = cache
        /\ cache_dirty' = cache_dirty]_vars


\* ---------------------------------------------------------------- C16

\* C16: delete_memory(id) returns True and removes the record, so that
\* get_memory_by_id finds nothing and the other records are as they were, when
\* a record with that id is stored; it returns False and leaves the store and
\* the index as they are when none is, a second delete of the same id included.
C16_DeleteReports ==
    [][re' = re =>
        LET id == del_ret'.id
        IN  /\ del_ret'.called
            /\ IF \E r \in Range(store) : r.id = id
               THEN /\ del_ret'.deleted
                    /\ get_memory_by_id(store', id) = {}
                    /\ Range(store') = Range(store) \ {RowOf(id)}
                    /\ id \notin BagToSet(fts')
               ELSE /\ ~del_ret'.deleted
                    /\ store' = store
                    /\ fts' = fts]_vars

\* Record 1 was stored when the file was opened, has been deleted, and a
\* second delete of it has reported False.
C16_Witness ==
    /\ del_ret = [called |-> TRUE, id |-> 1, deleted |-> FALSE]
    /\ next_id > 1
    /\ get_memory_by_id(store, 1) = {}

\* ---------------------------------------------------------------- C17

\* The embedding is missing or of another dimension than the service's.
Mismatched(m) == Len(m.embedding) = 0 \/ Len(m.embedding) # embedding_dim

\* The page the running call is about to list.
PageNow == list_memories(store, None, <<>>, re.page_size, re.offset)

Clean == \A r \in LiveRows : ~Mismatched(r)

Encodes(p) == procs[p].pc = "encode" /\ procs'[p].pc # "encode"

\* C19: when encode_batch returns for a batch, every future of the batch that
\* was still awaited is resolved with the embedding of its own text, and the
\* cache afterwards maps every hash of the batch to that embedding.
C19_BatchResultsAligned ==
    [][\A p \in Callers :
        (Encodes(p) /\ procs'[p].encoded) =>
            \A i \in 1..Len(procs[p].batch) :
                LET item == procs[p].batch[i]
                IN  /\ item.text_hash \in DOMAIN cache'
                    /\ cache'[item.text_hash] = model_encode(item.text)
                    /\ tasks[item.future].state = "pending" =>
                          /\ tasks'[item.future].state = "result"
                          /\ tasks'[item.future].value = model_encode(item.text)]_vars

\* ---------------------------------------------------------------- C20

\* C20: when encode_batch raises for a batch, every future of the batch that
\* was still awaited completes with that exception and none is left pending,
\* the cache is as it was, the processor goes on to the next batch or exits,
\* and whenever no processor is in its loop the processing flag is down, so
\* that the next add_task creates a processor.
C20_EncodeFailure ==
    [][/\ \A p \in Callers :
            (Encodes(p) /\ ~procs'[p].encoded) =>
                /\ \A i \in 1..Len(procs[p].batch) :
                      LET c == procs[p].batch[i].future
                      IN  /\ tasks'[c].state # "pending"
                          /\ tasks[c].state = "pending" =>
                                /\ tasks'[c].state = "exception"
                                /\ tasks'[c].value = "RuntimeError"
                /\ cache' = cache
                /\ procs'[p].pc \in {"collect", "exited"}
                /\ procs'[p].pc = "collect" => Len(queue') > 0
       /\ (\A p \in Callers : procs'[p].pc \notin {"collect", "encode"}) => ~processing'
       /\ \A c \in Callers :
            (tasks[c].state = "none" /\ tasks'[c].state = "pending" /\ ~processing) =>
                procs'[c].pc = "created"]_vars

\* A batch of two has failed with encode_batch's exception, the processor has
\* exited with the flag down, and a task added afterwards has been served by
\* a processor of its own.
C20_Witness ==
    /\ tasks[1].state = "exception" /\ tasks[1].value = "RuntimeError"
    /\ tasks[2].state = "exception" /\ tasks[2].value = "RuntimeError"
    /\ procs[1].pc = "exited" /\ ~procs[1].encoded
    /\ tasks[3].state = "result"
    /\ procs[3].pc = "exited" /\ procs[3].encoded
    /\ ~processing
    /\ DOMAIN cache = {generate_text_hash(tasks[3].text)}


\* ---------------------------------------------------------------- C21

\* Caller c's add_task runs in this step.
Adds(c) == tasks[c].state = "none" /\ tasks'[c].state # "none"

\* C21: add_task for a hash that is in the embedding cache returns the cached
\* vector in the same step; nothing is put on the queue, no processor task is
\* created, no processor is touched, and the model is not called (the cache
\* and the model are as they were).
C21_CachedReturnsAtOnce ==
    [][\A c \in Callers :
        (Adds(c) /\ generate_text_hash(tasks'[c].text) \in DOMAIN cache) =>
            /\ tasks'[c].state = "cached"
            /\ tasks'[c].value = cache[generate_text_hash(tasks'[c].text)]
            /\ queue' = queue
            /\ procs' = procs
            /\ processing' = processing
            /\ cache' = cache
            /\ model_loaded' = model_loaded]_vars

\* The first caller's text was embedded by a processor, which has exited;
\* the second caller asked for the same text afterwards and was answered from
\* the cache without a processor of its own.
C21_Witness ==
    /\ tasks[1].state = "result"
    /\ tasks[2].state = "cached"
    /\ tasks[2].text = tasks[1].text
    /\ tasks[2].value = tasks[1].value
    /\ procs[2].pc = "none"
    /\ queue = <<>>


\* ---------------------------------------------------------------- C22

\* C22: requests for one hash that are pending together are one computation:
\* a batch handed to encode_batch holds no hash twice, and no item waits on
\* the queue for a hash that the batch being encoded already holds.
C22_PendingCoalesced ==
    \A p \in Callers :
        procs[p].pc = "encode" =>
            /\ \A i, j \in 1..Len(procs[p].batch) :
                  procs[p].batch[i].text_hash = procs[p].batch[j].text_hash => i = j
            /\ \A i \in 1..Len(procs[p].batch), k \in 1..Len(queue) :
                  procs[p].batch[i].text_hash # queue[k].text_hash


\* ---------------------------------------------------------------- C23

\* ceil(n / d)
CeilDiv(n, d) == (n + d - 1) \div d

\* The ids on page pg of the relevance listing that the recorded call belongs
\* to (same store, query, filters and limit).
RelevancePageIds(pg) ==
    LET r == list_relevance(store, cache[generate_text_hash(listed.req.search_query)],
                            listed.req.project, listed.req.tags, pg, listed.req.limit)
    IN  [i \in 1..Len(r.results) |-> r.results[i].id]

RelevanceListed ==
    /\ listed.status = "ok"
    /\ listed.req.sort = "relevance"
    /\ Len(listed.req.search_query) > 0

\* C23: in the relevance listing, pages 1..ceil(total_count / limit) hold
\* total_count records in all and no record twice.
C23_RelevancePagesCoverTotal ==
    RelevanceListed =>
        LET last == CeilDiv(listed.total_count, listed.req.limit)
            ids == [pg \in 1..last |-> RelevancePageIds(pg)]
        IN  /\ \A pg \in 1..last : Len(ids[pg]) = Cardinality(Range(ids[pg]))
            /\ \A pg, pg2 \in 1..last :
                  pg # pg2 => Range(ids[pg]) \cap Range(ids[pg2]) = {}
            /\ Cardinality(UNION {Range(ids[pg]) : pg \in 1..last}) = listed.total_count


\* ---------------------------------------------------------------- C24

\* The record is one the call is asked to remove: of the given project, when
\* one is given, and created strictly before the instant the date names, when
\* a date is given.
AskedToRemove(r, project, before_date) ==
    /\ (project # None /\ project # "") => r.project = project
    /\ before_date.k = "iso" => 2 * r.created_at < before_date.half

\* C24: bulk_delete(project, before_date) with a date that parses, or none,
\* removes exactly the records of that project created strictly before that
\* date, returns their number and leaves every other record as it was.
C24_BulkDeleteExact ==
    [][(bulk_ret.status = "none" /\ bulk_ret'.status # "none"
            /\ bulk_ret'.before_date.k # "bad") =>
        LET asked == {r \in Range(store) :
                         AskedToRemove(r, bulk_ret'.project, bulk_ret'.before_date)}
        IN  /\ bulk_ret'.status = "ok"
            /\ Range(store') = Range(store) \ asked
            /\ bulk_ret'.count = Cardinality(asked)
            /\ store' = SelectRows(store, {r.id : r \in Range(store) \ asked})]_vars


\* ---------------------------------------------------------------- C25

\* The response is what the tagging contract asks for: a JSON object whose
\* "category" is a string or null and whose "tags" is a list of strings.
WellFormed(resp) ==
    /\ resp.kind = "json"
    /\ resp.json.t = "object"
    /\ resp.json.has_category /\ resp.json.has_tags
    /\ resp.json.tags_t = "list"

\* Thread p's save_memory passes, in this step, the point where tags are
\* generated: tagging is enabled and the request came without tags.
TagsGenerated(p) ==
    /\ sv[p].pc = "insert"
    /\ sv'[p].pc = "idle"
    /\ settings.autotag_enabled
    /\ Len(sv[p].tags) = 0

\* C25: when the remote tagging call fails (it raises, times out or answers
\* with anything but a well-formed object), generate_tags returns the neutral
\* result and save_memory stores the record with an empty tag list and reports
\* it as created.
C25_TaggingFailureNotSurfaced ==
    [][\A p \in Threads :
        (TagsGenerated(p) /\ ~WellFormed(autotag'.response)) =>
            /\ autotag'.result = Neutral
            /\ ret'[p].kind = "ok"
            /\ ret'[p].reason = "created"
            /\ ~ret'[p].is_duplicate
            /\ Len(store') = Len(store) + 1
            /\ store'[Len(store')].id = ret'[p].id
            /\ store'[Len(store')].tags = <<>>]_vars

\* ---------------------------------------------------------------- C26

\* Every entry of the cache as it is before the step is there after it.
CacheKept ==
    \A h \in DOMAIN cache : h \in DOMAIN cache' /\ cache'[h] = cache[h]

\* A call of encode whose hash is cached.
EncodeOfCached ==
    /\ enc_ret' # enc_ret
    /\ enc_ret'.text_hash \in DOMAIN cache

\* C26: once a vector is cached under a hash it stays cached, through
\* save_cache and through a load_cache that follows a save_cache (which
\* leaves cache_dirty False) as well, and an encode with that hash returns
\* that vector without invoking the model.
C26_CachedStaysCached ==
    [][ /\ (cache_dirty /\ load_cache) \/ CacheKept
        /\ EncodeOfCached =>
              /\ enc_ret'.vec = cache[enc_ret'.text_hash]
              /\ ~enc_ret'.model_invoked ]_vars

\* ---------------------------------------------------------------- C27

\* What summarize may return for a text when nothing was summarized before.
FreshSummaries(text) ==
    {summarize(settings, <<>>, text, resp).summary :
        resp \in IF uses_llm(settings) THEN Completions ELSE {NoCompletion}}

\* C27: the summary a call of summarize returns for a text is one it returns
\* for that text when no other text was summarized before.
C27_SummaryIndependentOfHistory ==
    [][sum_ret' # sum_ret => sum_ret'.summary \in FreshSummaries(sum_ret'.text)]_vars

\* ---------------------------------------------------------------- C28

\* C28: the model is constructed at most once, whatever the number of
\* callers that find it unloaded, and never again once it is loaded.
C28_ModelLoadedOnce == loads <= 1

\* ---------------------------------------------------------------- C29

\* The first n characters followed by one ellipsis character.
Truncated(text, n) == Append(Take(text, n), "...")

\* C29: a search called with minimal and max_chars_per_item = N returns, and
\* every result whose stored text is longer than N carries the first N
\* characters of it followed by one ellipsis character.
C29_MinimalTruncates ==
    (out.status # "none" /\ "keywords" \in DOMAIN out /\ "minimal" \in out.keywords) =>
        /\ out.status = "ok"
        /\ \A i \in 1..Len(out.results) :
              LET stored == result_text(store, out.results[i])
              IN  Len(stored) > out.max_chars_per_item =>
                      /\ out.results[i].text = Truncated(stored, out.max_chars_per_item)
                      /\ Len(out.results[i].text) = out.max_chars_per_item + 1

\* ---------------------------------------------------------------- C30

\* No two records that are not archived share a content hash.
UniqueLive ==
    \A i, j \in 1..Len(store) :
        (i # j /\ ~store[i].archived /\ ~store[j].archived) =>
            store[i].text_hash # store[j].text_hash

\* A save of an admissible text that no record outside the archive holds.
SaveOfUnheld ==
    /\ sv["t1"].pc = "insert"
    /\ sv'["t1"].pc = "idle"
    /\ \A r \in Range(store) :
          r.text_hash = generate_text_hash(sv["t1"].text) => r.archived

\* The save appended one record, of the text saved, under an id no record
\* had, and reported it as created.
CreatedNew ==
    /\ Len(store') = Len(store) + 1
    /\ SubSeq(store', 1, Len(store)) = store
    /\ store'[Len(store')].text = sv["t1"].text
    /\ ~store'[Len(store')].archived
    /\ \A r \in Range(store) : r.id # store'[Len(store')].id
    /\ ret'["t1"].reason = "created"
    /\ ret'["t1"].id = store'[Len(store')].id

\* C30: under sequential saves, archives, deletes, bulk deletes and
\* re-embedding runs no two non-archived records share a content hash, and
\* a save whose text is held by archived or deleted records only creates a
\* new record under a new id.
C30_UniqueAmongLive ==
    /\ []UniqueLive
    /\ [][ /\ (sv["t1"].pc = "idle" /\ sv'["t1"].pc = "insert") =>
                 get_memory_by_hash_any(store, generate_text_hash(sv'["t1"].text))
                     \subseteq {r \in Range(store) : r.archived}
           /\ (sv'["t1"].pc = "idle" /\ ret'["t1"] # ret["t1"]
                 /\ ret'["t1"].kind = "ok" /\ ret'["t1"].is_duplicate) =>
                 \E r \in Range(store) :
                     r.id = ret'["t1"].id /\ ~r.archived
                         /\ r.text_hash = generate_text_hash(ret'["t1"].text)
           /\ SaveOfUnheld => CreatedNew ]_vars

\* A record was saved, archived, and its text saved again under a new id.
C30_Witness ==
    /\ \E i, j \in 1..Len(store) :
          /\ store[i].archived /\ ~store[j].archived
          /\ store[i].text_hash = store[j].text_hash
          /\ store[i].id # store[j].id
          /\ ret["t1"].reason = "created" /\ ret["t1"].id = store[j].id

\* ---------------------------------------------------------------- C40

\* The cache holds an entry the file does not hold.
UnsavedEntry ==
    \E h \in DOMAIN cache :
        \/ ~cache_file.exists
        \/ h \notin DOMAIN cache_file.entries
        \/ cache_file.entries[h] # cache[h]

\* C40: while the cache holds an entry that is not in its file cache_dirty
\* is True, whoever added the entry, and a save_cache that writes leaves
\* the file equal to the cache.
C40_UnsavedIsDirty ==
    /\ [](UnsavedEntry => cache_dirty)
    /\ [][(cache_dirty /\ ~cache_dirty') =>
              (cache_file'.exists /\ cache_file'.entries = cache')]_vars

\* ---------------------------------------------------------------- C31

\* What a record keeps for life.
Identity(r) ==
    [id |-> r.id, text |-> r.text, text_hash |-> r.text_hash, project |-> r.project,
     tags |-> r.tags, created_at |-> r.created_at]

\* C31: a call of update_embedding or archive_memory leaves the rows where
\* they are, with their id, text, hash, project, tags and created_at;
\* it changes no row but the addressed one; update_embedding leaves the
\* archived flag alone and archive_memory the embedding and updated_at; and
\* for an id that no row has the call returns False and changes nothing.
C31_UpdateAndArchiveFrame ==
    [][ /\ Len(store') = Len(store)
        /\ \A i \in 1..Len(store) :
              /\ Identity(store'[i]) = Identity(store[i])
              /\ store[i].id # db_ret'.id => store'[i] = store[i]
              /\ db_ret'.op = "update_embedding" => store'[i].archived = store[i].archived
              /\ db_ret'.op = "archive_memory" =>
                    /\ store'[i].embedding = store[i].embedding
                    /\ store'[i].updated_at = store[i].updated_at
        /\ (\A r \in Range(store) : r.id # db_ret'.id) =>
              (store' = store /\ ~db_ret'.result) ]_vars

\* An update and an archive each hit one row of a store of several.
C31_Witness ==
    /\ Len(store) >= 2
    /\ db_ret.result
    /\ db_ret.op = "archive_memory"
    /\ \E r \in Range(store) : r.id = db_ret.id /\ r.archived /\ r.embedding = <<0, 1>>

\* ---------------------------------------------------------------- C32

\* The non-archived records the listing's filters match.
Matching(req) ==
    {r \in Range(store) :
        /\ ~r.archived
        /\ (req.project # None => r.project = req.project)
        /\ (Len(req.tags) > 0 => \E i \in 1..Len(req.tags) : req.tags[i] \in Range(r.tags))}

\* Page pg of the date listing that the recorded call belongs to (same
\* store, filters and limit), as records.
DatePage(pg) ==
    LET r == list_by_date(store, listed.req.project, listed.req.tags, pg, listed.req.limit)
    IN  [i \in 1..Len(r.results) |->
            CHOOSE m \in Range(store) : m.id = r.results[i].id]

DateListed ==
    /\ listed.status = "ok"
    /\ ~(listed.req.sort = "relevance" /\ Len(listed.req.search_query) > 0)

\* C32: the date listing reports as total_count the number of matching
\* non-archived records, whatever the page and the limit; its items carry
\* no score; and pages 1, 2, ... hold the matching records once each, limit
\* to a page, in descending created_at order within and across pages, the
\* call's own page being the one of its number.
C32_DateListingPages ==
    DateListed =>
        LET limit == listed.req.limit
            total == Cardinality(Matching(listed.req))
            last == CeilDiv(total, limit)
            pages == [pg \in 1..(last + 1) |-> DatePage(pg)]
            mine == listed.req.page
        IN  /\ listed.total_count = total
            /\ \A i \in 1..Len(listed.results) : listed.results[i].score = NoFloat
            /\ mine <= last + 1 =>
                  [i \in 1..Len(listed.results) |-> listed.results[i].id]
                      = [i \in 1..Len(pages[mine]) |-> pages[mine][i].id]
            /\ mine > last => Len(listed.results) = 0
            /\ UNION {Range(pages[pg]) : pg \in 1..last} = Matching(listed.req)
            /\ \A pg \in 1..(last + 1) :
                  Len(pages[pg]) = IF pg < last THEN limit
                                   ELSE IF pg = last THEN total - (last - 1) * limit
                                   ELSE 0
            /\ \A pg, pg2 \in 1..last, i \in 1..limit, j \in 1..limit :
                  (i <= Len(pages[pg]) /\ j <= Len(pages[pg2])
                       /\ (pg < pg2 \/ (pg = pg2 /\ i < j))) =>
                      /\ pages[pg][i].id # pages[pg2][j].id
                      /\ pages[pg][i].created_at >= pages[pg2][j].created_at

\* The second page of a date listing of several records was asked for.
C32_Witness ==
    /\ DateListed
    /\ listed.req.page = 2
    /\ listed.req.limit = 1
    /\ listed.total_count >= 2
    /\ Len(listed.results) = 1

\* ---------------------------------------------------------------- C33

\* The processors between their flag check and their exit.
Active == {p \in Callers : procs[p].pc \in {"collect", "encode"}}

\* The futures of the items a processor holds, and of those in the queue.
Held(p) == [i \in 1..Len(procs[p].batch) |-> procs[p].batch[i].future]
Queued == [i \in 1..Len(queue) |-> queue[i].future]

\* The number of places an item of caller c is in.
Places(c) ==
    Cardinality({i \in 1..Len(queue) : queue[i].future = c})
    + Cardinality({<<p, i>> \in Active \X (1..(batch_size + 1)) :
                      i <= Len(procs[p].batch) /\ procs[p].batch[i].future = c})

Increasing(s) == \A i, j \in 1..Len(s) : i < j => s[i] < s[j]

C37_SingleProcessor ==
    /\ Cardinality(Active) <= 1
    /\ processing <=> Active # {}

\* A second invocation was created and has not run yet while the first is
\* assembling or encoding a batch.
C37_Witness ==
    /\ processing
    /\ \E p, q \in Callers : p \in Active /\ procs[q].pc = "created"

\* ---------------------------------------------------------------- C36

LiveIds == {r.id : r \in {x \in Range(store) : ~x.archived}}
C35_IndexIsLive ==
    fts_ready =>
        /\ BagToSet(fts) = LiveIds
        /\ \A id \in BagToSet(fts) : CopiesIn(id, fts) = 1

\* A live row was given a new embedding and is indexed once, beside an
\* archived row that is not indexed.
C35_Witness ==
    /\ fts_ready
    /\ db_ret.op = "update_embedding" /\ db_ret.result
    /\ db_ret.id \in LiveIds
    /\ \E r \in Range(store) : r.archived /\ r.id \notin BagToSet(fts)

\* C34: a hybrid search that falls through to the full scan returns what the
\* semantic-only mode returns for the same store, query, filters, threshold
\* and limit: the same outcome, the same scored records in the same order.
SameAnswer(a, b) ==
    /\ a.status = b.status
    /\ a.thr = b.thr
    /\ a.pairs = b.pairs
    /\ a.results = b.results
C34_FallbackIsSemanticOnly ==
    [][(out'.status # "none" /\ out'.path = "scan") =>
        LET req == out'.req
            e == encode(req.query, generate_text_hash(req.query))
        IN  SameAnswer(out', semantic_only(store, e.vec, e.dim, req))]_vars

\* The scan answered a search restricted to project A with one of two stored
\* rows.
C34_Witness ==
    /\ out.status = "ok" /\ out.path = "scan"
    /\ out.trace.fts_called /\ out.trace.like_called
    /\ out.req.project = "A"
    /\ Len(store) >= 2
    /\ Len(out.results) = 1

\* C38: a Memory written with db.save_memory and read back with
\* get_memory_by_id has the same id, text, summary, hash, embedding, project,
\* tags, created_at and updated_at: the summary generated at save time is
\* the summary read later.
C38_RoundTrip ==
    [][db_ret'.op = "save_memory" /\ db_ret' # db_ret =>
        read_memory(store', db_ret'.id) = {db_ret'.memory}]_vars

\* What the round trip does preserve: every field but the summary.
C38_RoundTripButSummary ==
    [][db_ret'.op = "save_memory" /\ db_ret' # db_ret =>
        {[m EXCEPT !.summary = db_ret'.memory.summary] :
            m \in read_memory(store', db_ret'.id)} = {db_ret'.memory}]_vars

\* C39: whatever the embedding cache held when the service was constructed
\* and whether or not the model is loaded, the embedding of every record
\* save_memory creates and the query vector of every search_memory call have
\* as many components as embedding_dim says when the call returns.
VectorsHaveDim ==
    /\ next_id' = next_id + 1 =>
            Len(store'[Len(store')].embedding) = embedding_dim'
    /\ (out.status = "none" /\ out'.status # "none") =>
            Len(encode(out'.req.query, generate_text_hash(out'.req.query)).vec)
                = embedding_dim'
C39_VectorsHaveDim == [][VectorsHaveDim]_vars

\* With a cache that is empty or was written under the configured model,
\* they do.
FreshCacheHasDim ==
    [][(\A h \in DOMAIN cache : Len(cache[h]) = model_embedding_dim)
          => VectorsHaveDim]_vars

====
